---- MODULE Spec2Model ----
(***************************************************************************)
(* Session lifecycle of @emdgroup/react-auth: the module-level refresh     *)
(* coordinator (refreshSession / _refreshSession), the access token        *)
(* accessor (getAccessToken / _getAccessToken), the storage helpers they   *)
(* use (setItem / clearItem / getItem) and the HTTP helper request().      *)
(*                                                                         *)
(* JavaScript runs one task at a time: a task (a network response, a timer,*)
(* an abort, a top-level call) runs to completion, then every pending      *)
(* promise reaction (microtask) runs before the next task starts.          *)
(***************************************************************************)
EXTENDS Integers, Sequences, FiniteSets, TLC

\* ------------------------------------------------------------------ bounds
NCallers == 2
MaxClock == 2

Callers == 1..NCallers

\* ---------------------------------------------------------- program constants
DefaultRetry == 3

\* ------------------------------------------------------------ JS values
\* Every JavaScript value the model handles is a record of one shape:
\* k is the result of typeof (with "null" told apart), s the string, n the number.
Str(x) == [k |-> "string", s |-> x, n |-> 0]
Num(i) == [k |-> "number", s |-> "", n |-> i]
Undefined == [k |-> "undefined", s |-> "", n |-> 0]
Null == [k |-> "null", s |-> "", n |-> 0]

Truthy(v) ==
    \/ v.k = "string" /\ v.s # ""
    \/ v.k = "number" /\ v.n # 0

\* A number that is not finite: JSON.parse gives Infinity for 1e999.
Infinity == [k |-> "number", s |-> "Infinity", n |-> 0]
NaN == [k |-> "number", s |-> "NaN", n |-> 0]

\* Date.now() + expires_in * 1000; with a number that is not finite the sum
\* is that number.
expiresAt(now, expires_in) ==
    IF expires_in.s # "" THEN expires_in ELSE Num(now + expires_in.n * 1000)

isStringOrUndefined(arg) == arg.k \in {"string", "undefined", "null"}

\* A UserSession-like object; a field that is Undefined is an absent key.
Obj(a, r, i, e) == [accessToken |-> a, refreshToken |-> r, idToken |-> i, expires |-> e]
NoSess == Obj(Undefined, Undefined, Undefined, Undefined)

isSession(args) ==
    /\ args.accessToken.k = "string"
    /\ isStringOrUndefined(args.refreshToken)
    /\ isStringOrUndefined(args.idToken)
    /\ args.expires.k = "number"

\* A token endpoint response as request() hands it on: parsed says whether
\* JSON.parse gave an object ("object"), another JSON value or the empty text
\* ("other"), or threw ("error", then body is undefined and error is set).
Body(a, r, i, t, e) ==
    [access_token |-> a, refresh_token |-> r, id_token |-> i, token_type |-> t, expires_in |-> e]
NoBody == Body(Undefined, Undefined, Undefined, Undefined, Undefined)

isTokenResponse(parsed, args) ==
    /\ parsed = "object"
    /\ args.access_token.k = "string"
    /\ isStringOrUndefined(args.refresh_token)
    /\ isStringOrUndefined(args.id_token)
    /\ args.token_type.k = "string"
    /\ args.expires_in.k = "number"

\* ------------------------------------------------------------ storage
\* The raw value of localStorage['session']: no item, a text that is not JSON,
\* a JSON value that is not an object, or a JSON object.
Item(kind, obj) == [kind |-> kind, obj |-> obj]
NoItem == Item("none", NoSess)

\* JSON.stringify of an object: keys holding undefined are dropped (they stay
\* Undefined here), a number that is not finite (s # "") is written as null.
JSONstringify(obj) ==
    [f \in DOMAIN obj |->
        IF obj[f].k = "number" /\ obj[f].s # "" THEN Null ELSE obj[f]]

\* setItem({provider: localStorage, key: 'session', item, sync: true}) without
\* predicate: the new raw value.
setItem(item) == Item("object", JSONstringify(item))

\* clearItem({provider: localStorage, key: 'session', sync: true}).
clearItem == NoItem

\* Mutant: getItem that does not apply the predicate.
getItem_NoPredicate(raw) ==
    IF raw.kind = "object"
    THEN [found |-> TRUE, sess |-> raw.obj]
    ELSE [found |-> FALSE, sess |-> NoSess]

\* getItem({provider: localStorage, key: 'session', predicate: isSession}).
getItem(raw) ==
    IF raw.kind = "none" THEN [found |-> FALSE, sess |-> NoSess]
    ELSE IF raw.kind = "object" /\ isSession(raw.obj)
         THEN [found |-> TRUE, sess |-> raw.obj]
         ELSE [found |-> FALSE, sess |-> NoSess]

\* ------------------------------------------------------------ state
VARIABLES
    storage,                \* raw value of localStorage['session']
    events,                 \* StorageEvents refreshSession and getAccessToken have dispatched
    clock,                  \* wall clock in seconds; Date.now() is clock * 1000
    refreshSessionPromise,  \* module slot: 0 (undefined) or an index into rsProm
    rsProm,                 \* every promise _refreshSession has returned so far
    getAccessTokenPromise,  \* module slot: 0 (undefined) or an index into gaProm
    gaProm,                 \* every promise _getAccessToken has returned so far
    caller,                 \* the application's callers and what they got
    aborted,                \* aborted[c]: caller c's AbortSignal is aborted
    reads                   \* getItem calls made so far

\* The state of a mounted UserContextProvider and of its page.
VARIABLES
    mounted,        \* the page with the provider is alive and its effects subscribed
    props,          \* ProviderOptions: autoLogin, refreshSession, additionalParameters
    location,       \* document.location of the page that was loaded
    tabStorage,     \* sessionStorage: pkceKey and entrypoint
    item,           \* useStorage's local item of key 'session'
    code,           \* useState: the authorization code captured from the URL
    loginUrl,       \* useState: the authorize URL
    userInfo,       \* useState: the user info is set
    tokenQuery,     \* useQuery state of the code exchange
    userInfoQuery,  \* useCachedQuery / useQuery state of the user-info fetch
    logins,         \* the invocations of login()
    lastRender,     \* the values the last commit rendered with (effect dependencies)
    nav,            \* the navigation the page has started
    catches,        \* catch handlers the refresh effect has attached
    acts            \* calls of the application and writes of other tabs so far

\* A computation on values, outside a provider: its input and its result.
VARIABLE calc

authVars == <<storage, events, clock, refreshSessionPromise, rsProm,
              getAccessTokenPromise, gaProm, caller, aborted, reads>>

ctlRest == <<mounted, props, location, tabStorage, code, loginUrl, userInfo, tokenQuery,
             userInfoQuery, logins, lastRender, nav, catches, acts, calc>>

ctlVars == <<item, ctlRest>>

vars == <<authVars, ctlVars>>

DateNow == clock * 1000

\* ------------------------------------------------------------ inputs
\* The refresh token a direct caller of refreshSession passes: not the one of
\* the stored session.
RefreshTokenArgs == {"rX"}

\* Token responses: with a rotated refresh token; without refresh_token;
\* with refresh_token null, no id_token and expires_in 0.
TokenBodies ==
    { Body(Str("a2"), Str("r2"), Str("i2"), Str("Bearer"), Num(2)),
      Body(Str("a2"), Undefined, Str("i2"), Str("Bearer"), Num(2)),
      Body(Str("a2"), Null, Undefined, Str("Bearer"), Num(0)) }

Resp(parsed, body, error) == [parsed |-> parsed, body |-> body, error |-> error]

\* The token bodies; {"error":"invalid_grant"}; a text that is not JSON.
Responses ==
    { Resp("object", b, "undefined") : b \in TokenBodies } \cup
    { Resp("object", NoBody, "undefined"),
      Resp("error", NoBody, "SyntaxError") }

InitItems ==
    { NoItem,
      Item("malformed", NoSess),
      Item("object", Obj(Str("a1"), Str("r1"), Undefined, Str("soon"))) } \cup
    { Item("object", Obj(Str("a1"), r, Str("i1"), Num(e))) :
        r \in {Str("r1"), Undefined}, e \in {1000, 2000} }

\* ------------------------------------------------------------ promises
Outcome(state, sess, tok, err) == [state |-> state, sess |-> sess, tok |-> tok, err |-> err]
NoOutcome == Outcome("none", NoSess, Undefined, "")

RsOutcome(p) == Outcome(p.state, p.sess, Undefined, p.err)
GaOutcome(g) == Outcome(g.state, NoSess, g.tok, g.err)

Settled(p) == p.state # "pending"

\* _refreshSession up to its await: request() has sent its first fetch, with
\* the caller's signal and refresh token; retry counts the retries left.
request(owner, rt) ==
    [state |-> "pending", sess |-> NoSess, err |-> "", rt |-> rt,
     owner |-> owner, phase |-> "fetch", retry |-> DefaultRetry]

\* Mutant: refreshSession that never joins the promise in the slot.
refreshSession_NoJoin(slot, proms, owner, rt) ==
    [slot |-> Len(proms) + 1,
     proms |-> Append(proms, request(owner, rt)),
     p |-> Len(proms) + 1,
     started |-> TRUE]

\* refreshSession({signal, idpHost, clientId, refreshToken}): the slot and the
\* promises after the call, the promise the caller is handed (p) and whether
\* the call started _refreshSession.
refreshSession(slot, proms, owner, rt) ==
    IF slot # 0
    THEN [slot |-> slot, proms |-> proms, p |-> slot, started |-> FALSE]
    ELSE [slot |-> Len(proms) + 1,
          proms |-> Append(proms, request(owner, rt)),
          p |-> Len(proms) + 1,
          started |-> TRUE]

\* Mutant: _refreshSession that clears the stored session when the response
\* is not token-shaped.
_refreshSession_ClearsOnFailure(resp, now, raw) ==
    IF isTokenResponse(resp.parsed, resp.body)
    THEN LET session == Obj(resp.body.access_token, resp.body.refresh_token,
                            resp.body.id_token, expiresAt(now, resp.body.expires_in))
         IN  [state |-> "fulfilled", sess |-> session, err |-> "",
              storage |-> setItem(session), dispatched |-> 1]
    ELSE [state |-> "rejected", sess |-> NoSess, err |-> resp.error,
          storage |-> clearItem, dispatched |-> 1]

\* _refreshSession after request() has returned {body, error}: how its promise
\* settles, the raw storage value afterwards, and the events dispatched.
_refreshSession(resp, now, raw) ==
    IF isTokenResponse(resp.parsed, resp.body)
    THEN LET session == Obj(resp.body.access_token, resp.body.refresh_token,
                            resp.body.id_token, expiresAt(now, resp.body.expires_in))
         IN  [state |-> "fulfilled", sess |-> session, err |-> "",
              storage |-> setItem(session), dispatched |-> 1]
    ELSE [state |-> "rejected", sess |-> NoSess, err |-> resp.error,
          storage |-> raw, dispatched |-> 0]

\* Mutant: delegate whenever there is a refresh token, expired or not.
needsRefresh_IgnoresExpiry(session, now) ==
    Truthy(session.refreshToken)

\* The condition under which _getAccessToken delegates to refreshSession.
needsRefresh(session, now) ==
    session.expires.n <= now /\ Truthy(session.refreshToken)

\* Mutant: the callback registered with then(), which runs on success only.
finallyCallback_OnSuccessOnly(slot, prom) ==
    IF prom.state = "fulfilled" THEN 0 ELSE slot

\* The value the finally callback leaves in a slot.
finallyCallback(slot, prom) == 0

\* ------------------------------------------------------------ controller values
\* useStorage's local item of a synchronised key: undefined (set = FALSE) or
\* the parsed session; fresh tells that setLocalItem has stored a new object
\* since the last render.
LocalItem(set, sess, fresh) == [set |-> set, sess |-> sess, fresh |-> fresh]
NoLocalItem == LocalItem(FALSE, NoSess, FALSE)

\* useStorage's handler of a StorageEvent of key 'session' whose newValue is
\* the raw value: null unsets the item, a text that parses to a session
\* replaces it, anything else is ignored.
handler(it, raw) ==
    IF raw.kind = "none" THEN NoLocalItem
    ELSE IF raw.kind = "object" /\ isSession(raw.obj) THEN LocalItem(TRUE, raw.obj, TRUE)
    ELSE it

\* What useStorage returns for key 'session': the local item, else what
\* getItem reads from storage during this render.
useStorage(it, raw) ==
    IF it.set THEN [found |-> TRUE, sess |-> it.sess] ELSE getItem(raw)

\* The value of a query parameter: a text, or the text derived from the
\* verifier v.
Param(s) == [s |-> s, v |-> 0]

\* base64encode(await sha256(encodedKey)): the challenge of a verifier.
challenge(encodedKey) == [s |-> "base64url-sha256", v |-> encodedKey]

\* URLSearchParams.set: replaces the value of the key, or adds the key.
URLSearchParams_set(q, key, value) ==
    [k \in DOMAIN q \cup {key} |-> IF k = key THEN value ELSE q[k]]

\* The parameters login() builds before it merges additionalParameters.
queryString(encodedKey) ==
    [client_id |-> Param("test-client"),
     domain_hint |-> Param(""),
     response_type |-> Param("code"),
     scope |-> Param("openid email"),
     redirect_uri |-> Param("https://app/auth"),
     code_challenge_method |-> Param("S256"),
     code_challenge |-> challenge(encodedKey),
     prompt |-> Param(""),
     acr_values |-> Param("")]

\* The loop over additionalParams.entries(): every pair is set in turn.
RECURSIVE merge(_, _)
merge(q, additionalParams) ==
    IF additionalParams = <<>> THEN q
    ELSE merge(URLSearchParams_set(q, Head(additionalParams)[1], Head(additionalParams)[2]),
               Tail(additionalParams))

\* The query string of the authorize URL login() builds for a verifier.
authorizeUrl(encodedKey, additionalParameters) ==
    merge(queryString(encodedKey), additionalParameters)

LoginUrl(set, url) == [set |-> set, url |-> url]
NoLoginUrl == LoginUrl(FALSE, queryString(0))

\* The state of a useQuery hook: status, response, whether a request that has
\* not been answered is in flight, and what that request was sent with.
Query(status, response, inflight, params) ==
    [status |-> status, response |-> response, inflight |-> inflight, params |-> params]

NoResp == Resp("undefined", NoBody, "undefined")
TokenParams(key, c) == [key |-> key, code |-> c]
IdleTokenQuery == Query("idle", NoResp, FALSE, TokenParams(0, ""))

\* cached says whether localStorage holds the response under
\* 'cached.<cacheKey>', the key useCachedQuery stores it under.
UserInfoQuery(status, response, inflight, token, cacheKey, cached) ==
    [status |-> status, response |-> response, inflight |-> inflight, params |-> token,
     cacheKey |-> cacheKey, cached |-> cached]
IdleUserInfoQuery == UserInfoQuery("idle", NoResp, FALSE, Undefined, "none", FALSE)

Props(autoLogin, refreshSessionOpt, additionalParameters) ==
    [autoLogin |-> autoLogin, refreshSessionOpt |-> refreshSessionOpt,
     additionalParameters |-> additionalParameters]

Location(page, search) == [page |-> page, search |-> search]
TabStorage(pkceKey, entrypoint) == [pkceKey |-> pkceKey, entrypoint |-> entrypoint]
Nav(to, url, path) == [to |-> to, url |-> url, path |-> path]
NoNav == Nav("none", queryString(0), "")

\* The authHeader of the context: no header, or Authorization: Bearer <token>.
Header(set, token) == [set |-> set, bearer |-> token]
NoHeader == Header(FALSE, "")

\* session?.accessToken ? { Authorization: `Bearer ${session.accessToken}` } : {}
authHeader(session) ==
    IF session.found /\ Truthy(session.sess.accessToken)
    THEN Header(TRUE, session.sess.accessToken.s)
    ELSE NoHeader

\* Mutant: useMemo with an empty dependency list.
useMemo_authHeader_NoDeps(last, session) ==
    IF ~last.first THEN last.authHeader ELSE authHeader(session)

\* useMemo(..., [session?.accessToken]): the header of the last render is
\* kept while the dependency is the same.
useMemo_authHeader(last, session) ==
    LET dep == IF session.found THEN session.sess.accessToken ELSE Undefined IN
    IF ~last.first /\ last.accessToken = dep THEN last.authHeader ELSE authHeader(session)

\* The values a commit rendered with; first tells that nothing was rendered yet.
Rendered(first, it, session, key, entrypoint, c, tokenStatus, tokenResponse, userInfoMethod, cacheKey, accessToken, userInfoStatus, info, url) ==
    [first |-> first, item |-> it, session |-> session, key |-> key, entrypoint |-> entrypoint,
     code |-> c, tokenStatus |-> tokenStatus, tokenResponse |-> tokenResponse,
     userInfoMethod |-> userInfoMethod, cacheKey |-> cacheKey, accessToken |-> accessToken,
     userInfoStatus |-> userInfoStatus, userInfo |-> info, loginUrl |-> url,
     sessionNew |-> FALSE, authHeader |-> NoHeader]
NoRender ==
    Rendered(TRUE, NoLocalItem, [found |-> FALSE, sess |-> NoSess], 0, "", "", "idle", NoResp, FALSE,
             "none", Undefined, "idle", FALSE, NoLoginUrl)

\* A computation: op names what was computed ("none": nothing yet), resp and
\* sess are the token response or the session it starts from, opt is the
\* refreshSession option, made is the session it has made and read is what
\* getItem returns after it.
Calc(op, resp, sess, opt, made, read) ==
    [op |-> op, resp |-> resp, sess |-> sess, opt |-> opt, made |-> made, read |-> read]
NoRead == [found |-> FALSE, sess |-> NoSess]
NoCalc == Calc("none", NoResp, NoSess, FALSE, NoSess, NoRead)

\* No provider is mounted.
NoController ==
    /\ mounted = FALSE
    /\ props = Props(FALSE, FALSE, <<>>)
    /\ location = Location("app", "none")
    /\ tabStorage = TabStorage(0, "")
    /\ item = NoLocalItem
    /\ code = ""
    /\ loginUrl = NoLoginUrl
    /\ userInfo = FALSE
    /\ tokenQuery = IdleTokenQuery
    /\ userInfoQuery = IdleUserInfoQuery
    /\ logins = <<>>
    /\ lastRender = NoRender
    /\ nav = NoNav
    /\ catches = {}
    /\ acts = 0
    /\ calc = NoCalc

\* localChanges.dispatchEvent(new StorageEvent(...)) for n events whose
\* newValue is the raw value: the handler of a mounted provider runs.
dispatchEvent(n, raw) ==
    /\ item' = IF mounted /\ n > 0 THEN handler(item, raw) ELSE item
    /\ UNCHANGED ctlRest

\* ------------------------------------------------------------ Init
Init ==
    /\ storage \in InitItems
    /\ events = 0
    /\ clock = 1
    /\ refreshSessionPromise = 0
    /\ rsProm = <<>>
    /\ getAccessTokenPromise = 0
    /\ gaProm = <<>>
    /\ caller = [c \in Callers |-> [pc |-> "idle", op |-> "none", p |-> 0,
                                    joined |-> FALSE, out |-> NoOutcome]]
    /\ aborted = [c \in Callers |-> FALSE]
    /\ reads = 0
    /\ NoController

\* Some promise reaction is ready to run: no new task starts before it has run.
MicrotaskPending ==
    \/ refreshSessionPromise # 0 /\ Settled(rsProm[refreshSessionPromise])
    \/ getAccessTokenPromise # 0 /\ Settled(gaProm[getAccessTokenPromise])
    \/ \E g \in 1..Len(gaProm) :
          gaProm[g].state = "pending" /\ Settled(rsProm[gaProm[g].rs])
    \/ \E c \in Callers :
          \/ caller[c].pc = "awaitRs" /\ Settled(rsProm[caller[c].p])
          \/ caller[c].pc = "awaitGa" /\ Settled(gaProm[caller[c].p])
    \/ \E h \in catches : Settled(rsProm[h.p])

\* ------------------------------------------------------------ actions
\* Callers are interchangeable: they make their calls in the order of their
\* numbers.
MayCall(c) ==
    /\ caller[c].pc = "idle"
    /\ \A d \in Callers : d < c => caller[d].pc # "idle"

\* A caller calls refreshSession directly.
CallRefreshSession(c, rt) ==
    /\ MayCall(c)
    /\ LET r == refreshSession(refreshSessionPromise, rsProm, c, rt) IN
        /\ refreshSessionPromise' = r.slot
        /\ rsProm' = r.proms
        /\ caller' = [caller EXCEPT ![c] = [pc |-> "awaitRs", op |-> "refresh", p |-> r.p,
                                            joined |-> ~r.started, out |-> NoOutcome]]
    /\ UNCHANGED ctlVars
    /\ UNCHANGED <<storage, events, clock, getAccessTokenPromise, gaProm, aborted, reads>>

\* The promise of an attempt of _getAccessToken: rs is the refresh promise it
\* awaits (0: none), started whether its refreshSession call started that
\* refresh, read and at what getItem and Date.now() returned.
GaProm(state, rs, started, tok, err, read, at, owner) ==
    [state |-> state, rs |-> rs, started |-> started, tok |-> tok, err |-> err,
     read |-> read, at |-> at, owner |-> owner]

\* Mutant: _getAccessToken that hands the access token to refreshSession.
_getAccessToken_WrongToken(raw, now, slot, proms, owner) ==
    LET read == getItem(raw)
        r == refreshSession(slot, proms, owner, read.sess.accessToken.s)
    IN  IF ~read.found
        THEN [ga |-> GaProm("rejected", 0, FALSE, Undefined, "User is not authenticated", read, now, owner),
              slot |-> slot, proms |-> proms]
        ELSE IF needsRefresh(read.sess, now)
        THEN [ga |-> GaProm("pending", r.p, r.started, Undefined, "", read, now, owner),
              slot |-> r.slot, proms |-> r.proms]
        ELSE [ga |-> GaProm("fulfilled", 0, FALSE, read.sess.accessToken, "", read, now, owner),
              slot |-> slot, proms |-> proms]

\* _getAccessToken up to its first await: the promise it returns (ga) and what
\* its refreshSession call, if any, did to the refresh slot.
_getAccessToken(raw, now, slot, proms, owner) ==
    LET read == getItem(raw)
        r == refreshSession(slot, proms, owner, read.sess.refreshToken.s)
    IN  IF ~read.found
        THEN [ga |-> GaProm("rejected", 0, FALSE, Undefined, "User is not authenticated", read, now, owner),
              slot |-> slot, proms |-> proms]
        ELSE IF needsRefresh(read.sess, now)
        THEN [ga |-> GaProm("pending", r.p, r.started, Undefined, "", read, now, owner),
              slot |-> r.slot, proms |-> r.proms]
        ELSE [ga |-> GaProm("fulfilled", 0, FALSE, read.sess.accessToken, "", read, now, owner),
              slot |-> slot, proms |-> proms]

\* Mutant: _getAccessToken that rejects without clearing the stored session.
afterRefresh_NoClear(rsPromise, raw) ==
    IF rsPromise.state = "fulfilled"
    THEN [state |-> "fulfilled", tok |-> rsPromise.sess.accessToken, err |-> "",
          storage |-> raw, dispatched |-> 0]
    ELSE [state |-> "rejected", tok |-> Undefined, err |-> "User is not authenticated",
          storage |-> raw, dispatched |-> 0]

\* _getAccessToken after `await refreshSession(...).catch(() => null)`: how the
\* promise settles, the raw storage value afterwards, and the events dispatched.
afterRefresh(rsPromise, raw) ==
    IF rsPromise.state = "fulfilled"
    THEN [state |-> "fulfilled", tok |-> rsPromise.sess.accessToken, err |-> "",
          storage |-> raw, dispatched |-> 0]
    ELSE [state |-> "rejected", tok |-> Undefined, err |-> "User is not authenticated",
          storage |-> clearItem, dispatched |-> 1]

\* Mutant: getAccessToken that never joins the promise in the slot.
getAccessToken_NoJoin(gslot, raw, now, slot, proms, owner) ==
    LET g == _getAccessToken(raw, now, slot, proms, owner) IN
    [joined |-> FALSE, ga |-> g.ga, slot |-> g.slot, proms |-> g.proms, read |-> 1]

\* getAccessToken({signal, idpHost, clientId}): join the pending attempt or
\* start _getAccessToken.
getAccessToken(gslot, raw, now, slot, proms, owner) ==
    IF gslot # 0
    THEN [joined |-> TRUE, slot |-> slot, proms |-> proms, read |-> 0]
    ELSE LET g == _getAccessToken(raw, now, slot, proms, owner) IN
         [joined |-> FALSE, ga |-> g.ga, slot |-> g.slot, proms |-> g.proms, read |-> 1]

\* A caller calls getAccessToken.
CallGetAccessToken(c) ==
    /\ MayCall(c)
    /\ LET r == getAccessToken(getAccessTokenPromise, storage, DateNow,
                               refreshSessionPromise, rsProm, c)
           g == IF r.joined THEN getAccessTokenPromise ELSE Len(gaProm) + 1
       IN
        /\ getAccessTokenPromise' = g
        /\ gaProm' = IF r.joined THEN gaProm ELSE Append(gaProm, r.ga)
        /\ refreshSessionPromise' = r.slot
        /\ rsProm' = r.proms
        /\ reads' = reads + r.read
        /\ caller' = [caller EXCEPT ![c] = [pc |-> "awaitGa", op |-> "token", p |-> g,
                                            joined |-> r.joined, out |-> NoOutcome]]
    /\ UNCHANGED ctlVars
    /\ UNCHANGED <<storage, events, clock, aborted>>

\* request(): the token endpoint answers 429 and retries are left; request
\* sleeps before it fetches again.
Respond429(p) ==
    /\ ~MicrotaskPending
    /\ p \in 1..Len(rsProm)
    /\ rsProm[p].phase = "fetch"
    /\ rsProm[p].retry # 0
    /\ rsProm' = [rsProm EXCEPT ![p].phase = "sleep", ![p].retry = @ - 1]
    /\ UNCHANGED ctlVars
    /\ UNCHANGED <<storage, events, clock, refreshSessionPromise, getAccessTokenPromise,
                   gaProm, caller, aborted, reads>>

\* request(): the sleep is over, the next fetch is sent.
SleepDone(p) ==
    /\ ~MicrotaskPending
    /\ p \in 1..Len(rsProm)
    /\ rsProm[p].phase = "sleep"
    /\ rsProm' = [rsProm EXCEPT ![p].phase = "fetch"]
    /\ UNCHANGED ctlVars
    /\ UNCHANGED <<storage, events, clock, refreshSessionPromise, getAccessTokenPromise,
                   gaProm, caller, aborted, reads>>

\* request() returns the response (any status when no retry is left, any
\* status but 429 otherwise) and _refreshSession runs to its end.
RespondFinal(p, resp) ==
    /\ ~MicrotaskPending
    /\ p \in 1..Len(rsProm)
    /\ rsProm[p].phase = "fetch"
    /\ LET r == _refreshSession(resp, DateNow, storage) IN
        /\ rsProm' = [rsProm EXCEPT ![p].phase = "done",
                                    ![p].retry = 0,
                                    ![p].state = r.state,
                                    ![p].sess = r.sess,
                                    ![p].err = r.err]
        /\ storage' = r.storage
        /\ events' = events + r.dispatched
        /\ dispatchEvent(r.dispatched, r.storage)
    /\ UNCHANGED <<clock, refreshSessionPromise, getAccessTokenPromise, gaProm, caller,
                   aborted, reads>>

\* Mutant: an abort that also rejects the request the caller has joined.
Abort_RejectsJoined(c) ==
    /\ ~MicrotaskPending
    /\ ~aborted[c]
    /\ caller[c].pc \in {"awaitRs", "awaitGa"}
    /\ aborted' = [aborted EXCEPT ![c] = TRUE]
    /\ rsProm' = [p \in 1..Len(rsProm) |->
                    IF /\ rsProm[p].owner = c \/ (caller[c].pc = "awaitRs" /\ caller[c].p = p)
                       /\ rsProm[p].state = "pending"
                    THEN [rsProm[p] EXCEPT !.state = "rejected", !.err = "AbortError",
                                           !.phase = "done", !.retry = 0]
                    ELSE rsProm[p]]
    /\ UNCHANGED ctlVars
    /\ UNCHANGED <<storage, events, clock, refreshSessionPromise, getAccessTokenPromise,
                   gaProm, caller, reads>>

\* The application aborts the signal of a caller whose call is pending. A
\* request started with that signal (fetching or sleeping) rejects with an
\* AbortError.
Abort(c) ==
    /\ ~MicrotaskPending
    /\ ~aborted[c]
    /\ caller[c].pc \in {"awaitRs", "awaitGa"}
    /\ aborted' = [aborted EXCEPT ![c] = TRUE]
    /\ rsProm' = [p \in 1..Len(rsProm) |->
                    IF rsProm[p].owner = c /\ rsProm[p].state = "pending"
                    THEN [rsProm[p] EXCEPT !.state = "rejected", !.err = "AbortError",
                                           !.phase = "done", !.retry = 0]
                    ELSE rsProm[p]]
    /\ UNCHANGED ctlVars
    /\ UNCHANGED <<storage, events, clock, refreshSessionPromise, getAccessTokenPromise,
                   gaProm, caller, reads>>

\* refreshSession's finally callback, the first reaction of the promise.
RsFinally ==
    /\ refreshSessionPromise # 0
    /\ Settled(rsProm[refreshSessionPromise])
    /\ refreshSessionPromise' =
          finallyCallback(refreshSessionPromise, rsProm[refreshSessionPromise])
    /\ UNCHANGED ctlVars
    /\ UNCHANGED <<storage, events, clock, rsProm, getAccessTokenPromise, gaProm, caller,
                   aborted, reads>>

\* _getAccessToken resumes after its await.
GaContinue(g) ==
    /\ g \in 1..Len(gaProm)
    /\ gaProm[g].state = "pending"
    /\ Settled(rsProm[gaProm[g].rs])
    /\ LET r == afterRefresh(rsProm[gaProm[g].rs], storage) IN
        /\ gaProm' = [gaProm EXCEPT ![g].state = r.state, ![g].tok = r.tok, ![g].err = r.err]
        /\ storage' = r.storage
        /\ events' = events + r.dispatched
        /\ dispatchEvent(r.dispatched, r.storage)
    /\ UNCHANGED <<clock, refreshSessionPromise, rsProm, getAccessTokenPromise, caller,
                   aborted, reads>>

\* getAccessToken's finally callback.
GaFinally ==
    /\ getAccessTokenPromise # 0
    /\ Settled(gaProm[getAccessTokenPromise])
    /\ getAccessTokenPromise' =
          finallyCallback(getAccessTokenPromise, gaProm[getAccessTokenPromise])
    /\ UNCHANGED ctlVars
    /\ UNCHANGED <<storage, events, clock, refreshSessionPromise, rsProm, gaProm, caller,
                   aborted, reads>>

\* A caller's await returns. The caller that started the attempt holds
\* promise.finally(...), which settles after the callback has run; a caller
\* that joined holds the promise itself.
CallerSettle(c) ==
    /\ \/ /\ caller[c].pc = "awaitRs"
          /\ Settled(rsProm[caller[c].p])
          /\ caller[c].joined \/ refreshSessionPromise # caller[c].p
          /\ caller' = [caller EXCEPT ![c].pc = "done",
                                      ![c].out = RsOutcome(rsProm[caller[c].p])]
       \/ /\ caller[c].pc = "awaitGa"
          /\ Settled(gaProm[caller[c].p])
          /\ caller[c].joined \/ getAccessTokenPromise # caller[c].p
          /\ caller' = [caller EXCEPT ![c].pc = "done",
                                      ![c].out = GaOutcome(gaProm[caller[c].p])]
    /\ UNCHANGED ctlVars
    /\ UNCHANGED <<storage, events, clock, refreshSessionPromise, rsProm,
                   getAccessTokenPromise, gaProm, aborted, reads>>

\* Time passes.
Tick ==
    /\ clock < MaxClock
    /\ clock' = clock + 1
    /\ UNCHANGED ctlVars
    /\ UNCHANGED <<storage, events, refreshSessionPromise, rsProm, getAccessTokenPromise,
                   gaProm, caller, aborted, reads>>

Next ==
    \/ \E c \in Callers, rt \in RefreshTokenArgs : CallRefreshSession(c, rt)
    \/ \E c \in Callers : CallGetAccessToken(c)
    \/ \E p \in 1..Len(rsProm) : Respond429(p)
    \/ \E p \in 1..Len(rsProm) : SleepDone(p)
    \/ \E p \in 1..Len(rsProm), resp \in Responses : RespondFinal(p, resp)
    \/ \E c \in Callers : Abort(c)
    \/ RsFinally
    \/ \E g \in 1..Len(gaProm) : GaContinue(g)
    \/ GaFinally
    \/ \E c \in Callers : CallerSettle(c)
    \/ Tick

Spec == Init /\ [][Next]_vars

\* A promise reaction that is ready runs: the job queue is drained after
\* every task.
FairSpec ==
    /\ Spec
    /\ WF_vars(RsFinally)
    /\ WF_vars(GaFinally)

TypeOK ==
    /\ clock \in 1..MaxClock
    /\ refreshSessionPromise \in 0..Len(rsProm)
    /\ getAccessTokenPromise \in 0..Len(gaProm)
    /\ Len(rsProm) <= NCallers
    /\ Len(gaProm) <= NCallers

\* ------------------------------------------------------------ controller
\* Bounds of the controller's specification.
MaxLogins == 2
MaxRefreshes == 1
MaxActs == 1

\* The verifier a login() before this page load has left in sessionStorage.
PriorKey == 100

\* document.location.href.slice(document.location.origin.length)
href ==
    IF location.page = "app" THEN "/app"
    ELSE IF location.search = "code" THEN "/auth?code=c1"
    ELSE IF location.search = "error" THEN "/auth?error=access_denied"
    ELSE "/auth"

\* What useCachedQuery returns for the state of its query: the cached response
\* in place of the query's while the status is neither 'success' nor 'error',
\* and the status of the query in either case.
useCachedQuery(q) ==
    IF q.cached /\ q.cacheKey = "set" /\ q.status \notin {"success", "error"}
    THEN [status |-> q.status, response |-> Resp("object", NoBody, "undefined"), fromCache |-> TRUE]
    ELSE [status |-> q.status, response |-> q.response, fromCache |-> FALSE]

\* The values the provider renders with.
Snapshot ==
    LET s == useStorage(item, storage) IN
    [Rendered(FALSE, [item EXCEPT !.fresh = FALSE], s, tabStorage.pkceKey, tabStorage.entrypoint, code,
              tokenQuery.status, tokenQuery.response,
              s.found /\ s.sess.expires.n > DateNow /\ code = "",
              userInfoQuery.cacheKey,
              IF s.found THEN s.sess.accessToken ELSE Undefined,
              useCachedQuery(userInfoQuery).status, userInfo, loginUrl)
        EXCEPT !.sessionNew = s.found /\ (~item.set \/ item.fresh),
               !.authHeader = useMemo_authHeader(lastRender, s)]

\* A state of the provider has been set since the last render: React renders
\* again before the page handles its next task.
RenderPending ==
    /\ mounted
    /\ \/ lastRender.first
       \/ item # lastRender.item
       \/ <<code, tokenQuery.status, tokenQuery.response, userInfoQuery.status,
            userInfoQuery.cacheKey, userInfo, loginUrl>> #
          <<lastRender.code, lastRender.tokenStatus, lastRender.tokenResponse,
            lastRender.userInfoStatus, lastRender.cacheKey, lastRender.userInfo,
            lastRender.loginUrl>>

\* The page is ready to handle a task: no promise reaction and no render is
\* pending, and the digest of the user-info path, a few bytes, is there.
Idle ==
    /\ mounted
    /\ ~MicrotaskPending
    /\ ~RenderPending
    /\ userInfoQuery.cacheKey # "pending"

\* The state the effects of a commit act on.
EffectState ==
    [storage |-> storage, item |-> [item EXCEPT !.fresh = FALSE],
     tabStorage |-> tabStorage, code |-> code, loginUrl |-> loginUrl,
     userInfo |-> userInfo, tokenQuery |-> tokenQuery, userInfoQuery |-> userInfoQuery,
     logins |-> logins, nav |-> nav, slot |-> refreshSessionPromise, proms |-> rsProm,
     catches |-> catches]

\* `session` is another object than at the last render: another value, a new
\* local item, or (no local item) a new parse of the stored text.
sessionChanged(last, r) ==
    last.first \/ r.session # last.session \/ r.sessionNew

\* useQuery's effect when fetchData has changed: the cleanup of the previous
\* run aborts its request, whose rejection (if it was still in flight) sets
\* status 'error' after fetchData has run; fetchData resets the state for
\* method null and else starts a request.
fetchData(q, method, params) ==
    LET run == IF method
               THEN [q EXCEPT !.status = "loading", !.inflight = TRUE, !.params = params]
               ELSE [q EXCEPT !.status = "idle", !.response = NoResp, !.inflight = FALSE]
    IN  IF q.inflight THEN [run EXCEPT !.status = "error"] ELSE run

\* The method of the exchange query: code && key ? 'POST' : null.
exchangeMethod(r) == r.code # "" /\ r.key # 0

\* Mutant: the exchange query that fetches again when it has failed.
exchangeQueryEffect_RetriesOnError(last, r, st) ==
    IF last.first \/ <<r.key, r.code>> # <<last.key, last.code>> \/ r.tokenStatus = "error"
    THEN [st EXCEPT !.tokenQuery = fetchData(@, exchangeMethod(r), TokenParams(r.key, r.code))]
    ELSE st

\* useEffect(fetchData, [fetchData]) of the exchange query; fetchData depends
\* on method and body, that is on code and key.
exchangeQueryEffect(last, r, st) ==
    IF last.first \/ <<r.key, r.code>> # <<last.key, last.code>>
    THEN [st EXCEPT !.tokenQuery = fetchData(@, exchangeMethod(r), TokenParams(r.key, r.code))]
    ELSE st

\* updateSession: setItem with predicate isSession and sync.
updateSession(st, session) ==
    IF ~isSession(session) THEN st
    ELSE [st EXCEPT !.storage = setItem(session),
                    !.item = handler(@, setItem(session))]

\* clearSession: clearItem with sync.
clearSession(st) ==
    [st EXCEPT !.storage = clearItem,
               !.item = handler(@, clearItem)]

\* Mutant: the exchange effect without the test for a session.
exchangeApplies_IgnoresSession(r) ==
    /\ r.tokenStatus = "success"
    /\ isTokenResponse(r.tokenResponse.parsed, r.tokenResponse.body)

\* The condition of the exchange effect.
exchangeApplies(r) ==
    /\ ~r.session.found
    /\ r.tokenStatus = "success"
    /\ isTokenResponse(r.tokenResponse.parsed, r.tokenResponse.body)

\* Mutant: the exchange effect that stores the refresh token whatever the
\* option.
exchangedSession_KeepsRefreshToken(body, refreshSessionOpt, now) ==
    Obj(body.access_token,
        body.refresh_token,
        body.id_token,
        expiresAt(now, body.expires_in))

\* The session the exchange effect builds from the token response.
exchangedSession(body, refreshSessionOpt, now) ==
    Obj(body.access_token,
        IF refreshSessionOpt THEN body.refresh_token ELSE Undefined,
        body.id_token,
        expiresAt(now, body.expires_in))

\* Mutant: the exchange effect that leaves the entrypoint in sessionStorage.
exchangedTabStorage_KeepsEntrypoint(r, tab) ==
    TabStorage(0, tab.entrypoint)

\* What the exchange effect leaves in sessionStorage: clearKey(), and
\* clearEntrypoint() if (code && entrypoint).
exchangedTabStorage(r, tab) ==
    TabStorage(0, IF r.code # "" /\ r.entrypoint # "" THEN "" ELSE tab.entrypoint)

\* The exchange effect.
exchangeEffect(last, r, st) ==
    IF /\ \/ sessionChanged(last, r)
          \/ <<r.tokenStatus, r.tokenResponse, r.entrypoint, r.code>> #
                <<last.tokenStatus, last.tokenResponse, last.entrypoint, last.code>>
       /\ exchangeApplies(r)
    THEN LET stored == updateSession(st, exchangedSession(r.tokenResponse.body,
                                                         props.refreshSessionOpt, DateNow))
         IN  [stored EXCEPT !.tabStorage = exchangedTabStorage(r, @),
                            !.loginUrl = NoLoginUrl,
                            !.nav = IF r.code # "" /\ r.entrypoint # ""
                                    THEN Nav("entrypoint", queryString(0), r.entrypoint)
                                    ELSE @]
    ELSE st

\* useCachedQuery's first effect: for method GET it digests the path and sets
\* cacheKey when the digest is there.
cacheKeyEffect(last, r, st) ==
    IF /\ last.first \/ r.userInfoMethod # last.userInfoMethod
       /\ r.userInfoMethod
       /\ st.userInfoQuery.cacheKey = "none"
    THEN [st EXCEPT !.userInfoQuery.cacheKey = "pending"]
    ELSE st

\* Mutant: useCachedQuery that hands 'GET' to useQuery whatever method it was
\* given.
cachedMethod_AlwaysGet(r) == r.cacheKey = "set"

\* The method useCachedQuery hands to useQuery: (cacheKey || method !== 'GET')
\* ? method : null.
cachedMethod(r) == r.userInfoMethod /\ r.cacheKey = "set"

\* useEffect(fetchData, [fetchData]) of the user-info query; fetchData depends
\* on the method and on headers, the memoised authHeader.
userInfoQueryEffect(last, r, st) ==
    IF last.first \/ <<cachedMethod(r), r.accessToken>> # <<cachedMethod(last), last.accessToken>>
    THEN [st EXCEPT !.userInfoQuery = fetchData(@, cachedMethod(r), r.accessToken)]
    ELSE st

\* useCachedQuery's last effect: setCached(res.response) on success,
\* clearCache() on error; with no cacheKey neither writes.
cachedEffect(last, r, st) ==
    IF /\ last.first \/ <<r.userInfoStatus, r.cacheKey>> # <<last.userInfoStatus, last.cacheKey>>
       /\ r.cacheKey = "set"
       /\ r.userInfoStatus \in {"success", "error"}
    THEN [st EXCEPT !.userInfoQuery.cached = (r.userInfoStatus = "success")]
    ELSE st

\* The condition of the refresh effect.
refreshCondition(r, refreshSessionOpt, now) ==
    /\ refreshSessionOpt
    /\ r.session.found
    /\ Truthy(r.session.sess.refreshToken)
    /\ r.session.sess.expires.n <= now \/ r.userInfoStatus = "error"

\* Mutant: the refresh effect without the catch handler.
refreshEffect_NoCatch(last, r, st) ==
    IF /\ sessionChanged(last, r) \/ r.userInfoStatus # last.userInfoStatus
       /\ refreshCondition(r, props.refreshSessionOpt, DateNow)
    THEN LET rs == refreshSession(st.slot, st.proms, 0, r.session.sess.refreshToken.s) IN
         [st EXCEPT !.slot = rs.slot,
                    !.proms = rs.proms]
    ELSE st

\* The refresh effect: refreshSession(...).catch(() => clearSession()).
refreshEffect(last, r, st) ==
    IF /\ sessionChanged(last, r) \/ r.userInfoStatus # last.userInfoStatus
       /\ refreshCondition(r, props.refreshSessionOpt, DateNow)
    THEN LET rs == refreshSession(st.slot, st.proms, 0, r.session.sess.refreshToken.s) IN
         [st EXCEPT !.slot = rs.slot,
                    !.proms = rs.proms,
                    !.catches = @ \cup {[p |-> rs.p, joined |-> ~rs.started]}]
    ELSE st

\* The user-info effect.
userInfoEffect(last, r, st) ==
    IF /\ last.first \/ <<r.userInfo, r.userInfoStatus>> # <<last.userInfo, last.userInfoStatus>>
       /\ ~r.userInfo
       /\ r.userInfoStatus = "success"
    THEN [st EXCEPT !.userInfo = TRUE]
    ELSE st

LoginOptions(entrypoint, redirect) == [entrypoint |-> entrypoint, redirect |-> redirect]

\* Mutant: login() that stores the entrypoint whatever `redirect` is.
login_AlwaysStoresEntrypoint(st, opts) ==
    LET encodedKey == Len(st.logins) + 1 IN
    [st EXCEPT !.tabStorage =
                    TabStorage(encodedKey, IF opts.entrypoint # "" THEN opts.entrypoint ELSE href),
               !.logins = Append(@, [key |-> encodedKey, redirect |-> opts.redirect,
                                     pc |-> "digest"])]

\* login() up to `await sha256(encodedKey)`: a new verifier is stored, and with
\* redirect the entrypoint; the digest is pending.
login(st, opts) ==
    LET encodedKey == Len(st.logins) + 1 IN
    [st EXCEPT !.tabStorage =
                    TabStorage(encodedKey,
                               IF opts.redirect
                               THEN (IF opts.entrypoint # "" THEN opts.entrypoint ELSE href)
                               ELSE @.entrypoint),
               !.logins = Append(@, [key |-> encodedKey, redirect |-> opts.redirect,
                                     pc |-> "digest"])]

\* The URL is the redirect URI and has a query string.
isCallback(loc) == loc.page = "auth" /\ loc.search # "none"

\* The mount effect.
mountEffect(last, r, st) ==
    IF ~sessionChanged(last, r) \/ r.session.found THEN st
    ELSE IF isCallback(location)
         THEN (IF location.search = "code" THEN [st EXCEPT !.code = "c1"] ELSE st)
         ELSE IF props.autoLogin THEN login(st, LoginOptions("", TRUE)) ELSE st

\* The effects of a commit, in the order of their hooks.
effects(last, r, st) ==
    mountEffect(last, r,
      userInfoEffect(last, r,
        refreshEffect(last, r,
          cachedEffect(last, r,
            userInfoQueryEffect(last, r,
              cacheKeyEffect(last, r,
                exchangeEffect(last, r,
                  exchangeQueryEffect(last, r, st))))))))

\* The provider renders and its effects run.
Render ==
    /\ mounted
    /\ ~MicrotaskPending
    /\ LET r == Snapshot
           st == effects(lastRender, r, EffectState)
       IN
        /\ Len(st.proms) <= MaxRefreshes
        /\ Len(st.logins) <= MaxLogins
        /\ storage' = st.storage
        /\ item' = st.item
        /\ tabStorage' = st.tabStorage
        /\ code' = st.code
        /\ loginUrl' = st.loginUrl
        /\ userInfo' = st.userInfo
        /\ tokenQuery' = st.tokenQuery
        /\ userInfoQuery' = st.userInfoQuery
        /\ logins' = st.logins
        /\ nav' = st.nav
        /\ refreshSessionPromise' = st.slot
        /\ rsProm' = st.proms
        /\ catches' = st.catches
        /\ lastRender' = [r EXCEPT !.sessionNew = FALSE]
    /\ UNCHANGED <<events, clock, getAccessTokenPromise, gaProm, caller, aborted, reads,
                   mounted, props, location, acts, calc>>

\* The application calls login(opts).
Login(opts) ==
    /\ Idle
    /\ Len(logins) < MaxLogins
    /\ LET st == login(EffectState, opts) IN
        /\ tabStorage' = st.tabStorage
        /\ logins' = st.logins
    /\ UNCHANGED <<authVars, mounted, props, location, item, code, loginUrl, userInfo,
                   tokenQuery, userInfoQuery, lastRender, nav, catches, acts, calc>>

\* The digest of a login() is there: login() builds the URL, sets loginUrl and,
\* with redirect, assigns document.location.href.
DigestDone(l) ==
    /\ Idle
    /\ l \in 1..Len(logins)
    /\ logins[l].pc = "digest"
    /\ LET url == authorizeUrl(logins[l].key, props.additionalParameters) IN
        /\ loginUrl' = LoginUrl(TRUE, url)
        /\ nav' = IF logins[l].redirect THEN Nav("authorize", url, "") ELSE nav
    /\ logins' = [logins EXCEPT ![l].pc = "done"]
    /\ UNCHANGED <<authVars, mounted, props, location, tabStorage, item, code, userInfo,
                   tokenQuery, userInfoQuery, lastRender, catches, acts, calc>>

\* What the token endpoint can answer to the exchange: a token response, a 200
\* that is no token response, an error status or a network error.
ExchangeOutcomes ==
    { [ok |-> TRUE, resp |-> Resp("object", Body(Str("a2"), Str("r2"), Str("i2"), Str("Bearer"), Num(2)), "undefined")],
      [ok |-> TRUE, resp |-> Resp("object", NoBody, "undefined")],
      [ok |-> FALSE, resp |-> Resp("object", NoBody, "undefined")] }

\* The then() callbacks of useQuery for a request that was not cancelled.
queryResult(q, ok, response) ==
    IF ok
    THEN [q EXCEPT !.status = "success", !.response = response, !.inflight = FALSE]
    ELSE [q EXCEPT !.status = "error", !.inflight = FALSE]

\* The exchange request is answered.
TokenRespond(out) ==
    /\ Idle
    /\ tokenQuery.inflight
    /\ tokenQuery' = queryResult(tokenQuery, out.ok, out.resp)
    /\ UNCHANGED <<authVars, mounted, props, location, tabStorage, item, code, loginUrl,
                   userInfo, userInfoQuery, logins, lastRender, nav, catches, acts, calc>>

\* The user-info request is answered.
UserInfoRespond(ok) ==
    /\ Idle
    /\ userInfoQuery.inflight
    /\ userInfoQuery' = queryResult(userInfoQuery, ok, Resp("object", NoBody, "undefined"))
    /\ UNCHANGED <<authVars, mounted, props, location, tabStorage, item, code, loginUrl,
                   userInfo, tokenQuery, logins, lastRender, nav, catches, acts, calc>>

\* The digest useCachedQuery waits for is there: setCacheKey.
CacheKeyDone ==
    /\ mounted
    /\ ~MicrotaskPending
    /\ ~RenderPending
    /\ userInfoQuery.cacheKey = "pending"
    /\ userInfoQuery' = [userInfoQuery EXCEPT !.cacheKey = "set"]
    /\ UNCHANGED <<authVars, mounted, props, location, tabStorage, item, code, loginUrl,
                   userInfo, tokenQuery, logins, lastRender, nav, catches, acts, calc>>

\* The application calls logout().
Logout ==
    /\ Idle
    /\ LET st == clearSession(EffectState) IN
        /\ storage' = st.storage
        /\ item' = st.item
    /\ userInfo' = FALSE
    /\ acts < MaxActs
    /\ acts' = acts + 1
    /\ UNCHANGED <<events, clock, refreshSessionPromise, rsProm, getAccessTokenPromise,
                   gaProm, caller, aborted, reads, mounted, props, location, tabStorage,
                   code, loginUrl, tokenQuery, userInfoQuery, logins, lastRender, nav,
                   catches, calc>>

\* The catch handler of the refresh effect runs: clearSession() if the promise
\* it was attached to has rejected. The handler of the call that started the
\* refresh is attached to promise.finally(...), which settles after the slot
\* was emptied.
Catch(h) ==
    /\ mounted
    /\ h \in catches
    /\ Settled(rsProm[h.p])
    /\ h.joined \/ refreshSessionPromise # h.p
    /\ LET st == IF rsProm[h.p].state = "rejected"
                 THEN clearSession(EffectState)
                 ELSE [EffectState EXCEPT !.item = item]
       IN
        /\ storage' = st.storage
        /\ item' = st.item
    /\ catches' = catches \ {h}
    /\ UNCHANGED <<events, clock, refreshSessionPromise, rsProm, getAccessTokenPromise,
                   gaProm, caller, aborted, reads, mounted, props, location, tabStorage,
                   code, loginUrl, userInfo, tokenQuery, userInfoQuery, logins, lastRender,
                   nav, acts, calc>>

\* What another tab can leave under key 'session'.
OtherTabItems ==
    { NoItem, Item("object", Obj(Str("a3"), Str("r3"), Str("i3"), Num(3000))) }

\* Another tab writes or removes localStorage['session']: the native storage
\* event reaches the handler.
OtherTab(raw) ==
    /\ Idle
    /\ storage # raw
    /\ acts < MaxActs
    /\ acts' = acts + 1
    /\ storage' = raw
    /\ item' = handler(item, raw)
    /\ UNCHANGED <<events, clock, refreshSessionPromise, rsProm, getAccessTokenPromise,
                   gaProm, caller, aborted, reads, mounted, props, location, tabStorage,
                   code, loginUrl, userInfo, tokenQuery, userInfoQuery, logins, lastRender,
                   nav, catches, calc>>

\* The navigation the page has started replaces the document.
Unload ==
    /\ Idle
    /\ nav.to # "none"
    /\ mounted' = FALSE
    /\ UNCHANGED <<authVars, props, location, tabStorage, item, code, loginUrl, userInfo,
                   tokenQuery, userInfoQuery, logins, lastRender, nav, catches, acts, calc>>

\* The stored sessions a page can be loaded with.
CtlInitItems ==
    { NoItem,
      Item("object", Obj(Str("a1"), Str("r1"), Str("i1"), Num(2000))),
      Item("object", Obj(Str("a1"), Undefined, Str("i1"), Num(2000))),
      Item("object", Obj(Str(""), Str("r1"), Str("i1"), Num(2000))) }

\* What the token endpoint answers to a refresh of the controller.
CtlResponses ==
    { Resp("object", Body(Str("a2"), Str("r2"), Str("i2"), Str("Bearer"), Num(2)), "undefined"),
      Resp("object", NoBody, "undefined") }

\* A page with the provider has been loaded and nothing has run yet.
PageLoad(items, options, locations, tabs) ==
    /\ storage \in items
    /\ events = 0
    /\ clock = 1
    /\ refreshSessionPromise = 0
    /\ rsProm = <<>>
    /\ getAccessTokenPromise = 0
    /\ gaProm = <<>>
    /\ caller = [c \in Callers |-> [pc |-> "idle", op |-> "none", p |-> 0,
                                    joined |-> FALSE, out |-> NoOutcome]]
    /\ aborted = [c \in Callers |-> FALSE]
    /\ reads = 0
    /\ mounted = TRUE
    /\ props \in options
    /\ location \in locations
    /\ tabStorage \in tabs
    /\ item = NoLocalItem
    /\ code = ""
    /\ loginUrl = NoLoginUrl
    /\ userInfo = FALSE
    /\ tokenQuery = IdleTokenQuery
    /\ userInfoQuery = IdleUserInfoQuery
    /\ logins = <<>>
    /\ lastRender = NoRender
    /\ nav = NoNav
    /\ catches = {}
    /\ acts = 0
    /\ calc = NoCalc

\* The session lifecycle of the provider: the page is some page of the
\* application, the redirect URI with a code or the redirect URI with an
\* error; sessionStorage is empty or holds the verifier and the entrypoint of
\* a login() before the load.
CtlInit ==
    PageLoad(CtlInitItems,
             {Props(a, o, <<>>) : a \in BOOLEAN, o \in BOOLEAN},
             {Location("app", "none"), Location("auth", "code"), Location("auth", "error")},
             {TabStorage(0, ""), TabStorage(PriorKey, "/ep")})

CtlNext ==
    \/ Render
    \/ \E l \in 1..Len(logins) : DigestDone(l)
    \/ \E out \in ExchangeOutcomes : TokenRespond(out)
    \/ \E ok \in BOOLEAN : UserInfoRespond(ok)
    \/ CacheKeyDone
    \/ Logout
    \/ \E h \in catches : Catch(h)
    \/ \E raw \in OtherTabItems : OtherTab(raw)
    \/ Unload
    \/ \E p \in 1..Len(rsProm), resp \in CtlResponses : Idle /\ RespondFinal(p, resp)
    \/ mounted /\ RsFinally
    \/ Idle /\ Tick

CtlSpec == CtlInit /\ [][CtlNext]_vars

\* The provider in a browser with no other tab of the application: every
\* act counted is a logout().
LogoutNext ==
    \/ Render
    \/ \E l \in 1..Len(logins) : DigestDone(l)
    \/ \E out \in ExchangeOutcomes : TokenRespond(out)
    \/ \E ok \in BOOLEAN : UserInfoRespond(ok)
    \/ CacheKeyDone
    \/ Logout
    \/ \E h \in catches : Catch(h)
    \/ Unload
    \/ \E p \in 1..Len(rsProm), resp \in CtlResponses : Idle /\ RespondFinal(p, resp)
    \/ mounted /\ RsFinally
    \/ Idle /\ Tick

LogoutSpec == CtlInit /\ [][LogoutNext]_vars

\* A page loaded with a stored session that has a refresh token, by a provider
\* with option refreshSession.
RefreshLoopInit ==
    PageLoad({ Item("object", Obj(Str("a1"), Str("r1"), Str("i1"), Num(e))) : e \in {1000, 2000} },
             {Props(FALSE, TRUE, <<>>)},
             {Location("app", "none")},
             {TabStorage(0, "")})

\* The promises of refreshes that have settled and that no slot and no
\* handler refers to are dropped, and the count of dispatched events, which
\* the provider does not read, starts anew.
Collect ==
    /\ mounted
    /\ rsProm # <<>>
    /\ refreshSessionPromise = 0
    /\ catches = {}
    /\ \A p \in 1..Len(rsProm) : Settled(rsProm[p])
    /\ rsProm' = <<>>
    /\ events' = 0
    /\ UNCHANGED <<storage, clock, refreshSessionPromise, getAccessTokenPromise, gaProm, caller, aborted, reads,
                   mounted, props, location, tabStorage, item, code, loginUrl, userInfo,
                   tokenQuery, userInfoQuery, logins, lastRender, nav, catches, acts, calc>>

\* The provider with its user-info query and its refresh effect, for any
\* number of refreshes.
RefreshLoopNext ==
    \/ Render
    \/ \E ok \in BOOLEAN : UserInfoRespond(ok)
    \/ CacheKeyDone
    \/ \E h \in catches : Catch(h)
    \/ \E p \in 1..Len(rsProm), resp \in CtlResponses : Idle /\ RespondFinal(p, resp)
    \/ mounted /\ RsFinally
    \/ Idle /\ Tick
    \/ Collect

RefreshLoopSpec == RefreshLoopInit /\ [][RefreshLoopNext]_vars

\* A render that is pending happens, a promise reaction that is ready runs,
\* and a request that was sent is answered.
FairRefreshLoopSpec ==
    /\ RefreshLoopSpec
    /\ WF_vars(Render)
    /\ WF_vars(CacheKeyDone)
    /\ WF_vars(\E h \in catches : Catch(h))
    /\ WF_vars(mounted /\ RsFinally)
    /\ WF_vars(\E ok \in BOOLEAN : UserInfoRespond(ok))
    /\ WF_vars(\E p \in 1..Len(rsProm), resp \in CtlResponses : Idle /\ RespondFinal(p, resp))

\* A render that is pending happens, a promise reaction that is ready runs,
\* and a request that was sent is answered.
FairCtlSpec ==
    /\ CtlSpec
    /\ WF_vars(Render)
    /\ WF_vars(CacheKeyDone)
    /\ WF_vars(\E h \in catches : Catch(h))
    /\ WF_vars(mounted /\ RsFinally)
    /\ WF_vars(\E out \in ExchangeOutcomes : TokenRespond(out))
    /\ WF_vars(\E ok \in BOOLEAN : UserInfoRespond(ok))
    /\ WF_vars(\E p \in 1..Len(rsProm), resp \in CtlResponses : Idle /\ RespondFinal(p, resp))

\* The additionalParameters a provider can be given: none, state=xyz, and a
\* string that names required parameters.
AdditionalParameters ==
    { <<>>,
      << <<"state", Param("xyz")>> >>,
      << <<"code_challenge_method", Param("plain")>>, <<"client_id", Param("other")>> >> }

\* The login flow of a provider without a session: the application calls
\* login() while the page is some page of the application or the redirect URI
\* with a code.
LoginInit ==
    PageLoad({NoItem},
             {Props(a, FALSE, ap) : a \in BOOLEAN, ap \in AdditionalParameters},
             {Location("app", "none"), Location("auth", "code")},
             {TabStorage(0, ""), TabStorage(PriorKey, ""), TabStorage(PriorKey, "/ep")})

\* The calls of login() an application makes: login(), login({entrypoint}),
\* login({redirect: false}).
LoginCalls ==
    {LoginOptions("", TRUE), LoginOptions("/given", TRUE), LoginOptions("", FALSE)}

\* The user opens loginUrl in this tab, signs in, and the identity provider
\* redirects to the redirect URI with a code: the page is loaded anew, with
\* the sessionStorage and localStorage the tab has.
FollowLoginUrl ==
    /\ Idle
    /\ loginUrl.set
    /\ \A l \in 1..Len(logins) : logins[l].pc = "done"
    /\ location.page = "app"
    /\ nav = NoNav
    /\ location' = Location("auth", "code")
    /\ item' = NoLocalItem
    /\ code' = ""
    /\ loginUrl' = NoLoginUrl
    /\ userInfo' = FALSE
    /\ tokenQuery' = IdleTokenQuery
    /\ userInfoQuery' = [IdleUserInfoQuery EXCEPT !.cached = userInfoQuery.cached]
    /\ lastRender' = NoRender
    /\ UNCHANGED <<authVars, mounted, props, tabStorage, logins, nav, catches, acts, calc>>

LoginNext ==
    \/ Render
    \/ \E opts \in LoginCalls : Login(opts)
    \/ \E l \in 1..Len(logins) : DigestDone(l)
    \/ \E out \in ExchangeOutcomes : TokenRespond(out)
    \/ FollowLoginUrl
    \/ Unload

LoginSpec == LoginInit /\ [][LoginNext]_vars

\* A render that is pending happens, a digest that was asked for is computed,
\* the exchange request is answered, and a navigation that was started
\* replaces the document.
FairLoginSpec ==
    /\ LoginSpec
    /\ WF_vars(Render)
    /\ WF_vars(\E l \in 1..Len(logins) : DigestDone(l))
    /\ WF_vars(\E out \in ExchangeOutcomes : TokenRespond(out))
    /\ WF_vars(Unload)

\* ------------------------------------------------------------ values
\* Token responses of every shape: access tokens, refresh_token and id_token
\* present, absent or null, expires_in negative, zero, positive and 1e999; and
\* a body that is no token response.
StoreBodies ==
    { Body(Str("a2"), r, i, Str("Bearer"), e) :
        r \in {Str("r2"), Undefined, Null}, i \in {Str("i2"), Undefined},
        e \in {Num(-1), Num(0), Num(2), Infinity} } \cup {NoBody}

\* Values an application can hand to the store as a session: the optional
\* fields present, absent or null, expires a number of every kind or a string.
StoreSessions ==
    { Obj(Str("a1"), r, i, e) :
        r \in {Str("r1"), Undefined, Null}, i \in {Str("i1"), Undefined},
        e \in {Num(-1), Num(0), Num(3000), Infinity, NaN, Str("soon")} }

\* No provider is mounted; the storage is empty or holds a session, and a
\* token response or a session is at hand.
StoreInit ==
    /\ storage \in {NoItem, Item("object", Obj(Str("a1"), Str("r1"), Str("i1"), Num(2000)))}
    /\ events = 0
    /\ clock \in 1..MaxClock
    /\ refreshSessionPromise = 0
    /\ rsProm = <<>>
    /\ getAccessTokenPromise = 0
    /\ gaProm = <<>>
    /\ caller = [c \in Callers |-> [pc |-> "idle", op |-> "none", p |-> 0,
                                    joined |-> FALSE, out |-> NoOutcome]]
    /\ aborted = [c \in Callers |-> FALSE]
    /\ reads = 0
    /\ mounted = FALSE
    /\ props = Props(FALSE, FALSE, <<>>)
    /\ location = Location("app", "none")
    /\ tabStorage = TabStorage(0, "")
    /\ item = NoLocalItem
    /\ code = ""
    /\ loginUrl = NoLoginUrl
    /\ userInfo = FALSE
    /\ tokenQuery = IdleTokenQuery
    /\ userInfoQuery = IdleUserInfoQuery
    /\ logins = <<>>
    /\ lastRender = NoRender
    /\ nav = NoNav
    /\ catches = {}
    /\ acts = 0
    /\ calc \in { Calc("none", Resp("object", b, "undefined"), NoSess, o, NoSess, NoRead) :
                    b \in StoreBodies, o \in BOOLEAN }
               \cup { Calc("none", NoResp, s, FALSE, NoSess, NoRead) : s \in StoreSessions }

\* The exchange effect's updateSession for the token response at hand.
StoreExchange ==
    /\ calc.op = "none"
    /\ isTokenResponse(calc.resp.parsed, calc.resp.body)
    /\ LET session == exchangedSession(calc.resp.body, calc.opt, DateNow) IN
        /\ storage' = updateSession(EffectState, session).storage
        /\ calc' = [calc EXCEPT !.op = "exchange", !.made = session]
    /\ UNCHANGED <<events, clock, refreshSessionPromise, rsProm, getAccessTokenPromise,
                   gaProm, caller, aborted, reads, item, mounted, props, location,
                   tabStorage, code, loginUrl, userInfo, tokenQuery, userInfoQuery, logins,
                   lastRender, nav, catches, acts>>

\* _refreshSession after the token endpoint has answered with the response at
\* hand.
StoreRefresh ==
    /\ calc.op = "none"
    /\ calc.resp # NoResp
    /\ LET r == _refreshSession(calc.resp, DateNow, storage) IN
        /\ storage' = r.storage
        /\ calc' = [calc EXCEPT !.op = IF r.state = "fulfilled" THEN "refresh" ELSE "failed",
                                !.made = r.sess]
    /\ UNCHANGED <<events, clock, refreshSessionPromise, rsProm, getAccessTokenPromise,
                   gaProm, caller, aborted, reads, item, mounted, props, location,
                   tabStorage, code, loginUrl, userInfo, tokenQuery, userInfoQuery, logins,
                   lastRender, nav, catches, acts>>

\* updateSession(session) for the value at hand.
StoreSession ==
    /\ calc.op = "none"
    /\ calc.resp = NoResp
    /\ storage' = updateSession(EffectState, calc.sess).storage
    /\ calc' = [calc EXCEPT !.op = IF isSession(calc.sess) THEN "stored" ELSE "refused"]
    /\ UNCHANGED <<events, clock, refreshSessionPromise, rsProm, getAccessTokenPromise,
                   gaProm, caller, aborted, reads, item, mounted, props, location,
                   tabStorage, code, loginUrl, userInfo, tokenQuery, userInfoQuery, logins,
                   lastRender, nav, catches, acts>>

\* getItem with predicate isSession after the write.
StoreRead ==
    /\ calc.op \in {"exchange", "refresh", "failed", "stored", "refused"}
    /\ calc' = [calc EXCEPT !.op = "read:" \o @, !.read = getItem(storage)]
    /\ UNCHANGED <<authVars, item, mounted, props, location,
                   tabStorage, code, loginUrl, userInfo, tokenQuery, userInfoQuery, logins,
                   lastRender, nav, catches, acts>>

StoreNext ==
    \/ StoreExchange
    \/ StoreRefresh
    \/ StoreSession
    \/ StoreRead

StoreSpec == StoreInit /\ [][StoreNext]_vars

\* ------------------------------------------------------------ request
\* The largest `retry` a caller passes.
MaxRetry == 3

\* The option `retry` of request(): absent or a number of retries.
RetryOption(set, n) == [set |-> set, n |-> n]
RetryOptions == {RetryOption(FALSE, 0)} \cup {RetryOption(TRUE, n) : n \in 0..MaxRetry}

\* const { retry = 3 } = args
retryOf(opt) == IF opt.set THEN opt.n ELSE DefaultRetry

\* The HTTP status of a response: 0 stands for no response yet.
Statuses == {200, 429, 500}

\* How JSON.parse takes the response text.
Texts == {"object", "other", "error"}

\* A call of request(): the option it was called with, where it stands, the
\* retries left, the fetches sent, the status of the last response and what
\* the promise settled with.
Request(opt, phase, retry, fetches, status, result) ==
    [opt |-> opt, phase |-> phase, retry |-> retry, fetches |-> fetches, status |-> status,
     result |-> result]

\* Mutant: request() that retries on every status of an error.
retries_OnEveryError(retry, status) == retry # 0 /\ status >= 400

\* if (retry && res.status === 429)
retries(retry, status) == retry # 0 /\ status = 429

\* request() has been called and has sent its first fetch.
RequestInit ==
    /\ storage = NoItem
    /\ events = 0
    /\ clock = 1
    /\ refreshSessionPromise = 0
    /\ rsProm = <<>>
    /\ getAccessTokenPromise = 0
    /\ gaProm = <<>>
    /\ caller = [c \in Callers |-> [pc |-> "idle", op |-> "none", p |-> 0,
                                    joined |-> FALSE, out |-> NoOutcome]]
    /\ aborted = [c \in Callers |-> FALSE]
    /\ reads = 0
    /\ mounted = FALSE
    /\ props = Props(FALSE, FALSE, <<>>)
    /\ location = Location("app", "none")
    /\ tabStorage = TabStorage(0, "")
    /\ item = NoLocalItem
    /\ code = ""
    /\ loginUrl = NoLoginUrl
    /\ userInfo = FALSE
    /\ tokenQuery = IdleTokenQuery
    /\ userInfoQuery = IdleUserInfoQuery
    /\ logins = <<>>
    /\ lastRender = NoRender
    /\ nav = NoNav
    /\ catches = {}
    /\ acts = 0
    /\ calc \in { Request(opt, "fetch", retryOf(opt), 1, 0, NoResp) : opt \in RetryOptions }

\* The fetch is answered with a status request() retries on: it sleeps and
\* will call itself with retry - 1.
RequestRetry(status) ==
    /\ calc.phase = "fetch"
    /\ retries(calc.retry, status)
    /\ calc' = [calc EXCEPT !.phase = "sleep", !.retry = @ - 1, !.status = status]
    /\ UNCHANGED <<authVars, item, mounted, props, location,
                   tabStorage, code, loginUrl, userInfo, tokenQuery, userInfoQuery, logins,
                   lastRender, nav, catches, acts>>

\* The sleep is over: request() is called again and sends its fetch.
RequestSleepDone ==
    /\ calc.phase = "sleep"
    /\ calc' = [calc EXCEPT !.phase = "fetch", !.fetches = @ + 1]
    /\ UNCHANGED <<authVars, item, mounted, props, location,
                   tabStorage, code, loginUrl, userInfo, tokenQuery, userInfoQuery, logins,
                   lastRender, nav, catches, acts>>

\* The fetch is answered with a status request() does not retry on: the
\* promise is fulfilled with the response and its parsed text or the error of
\* JSON.parse.
RequestReturn(status, text) ==
    /\ calc.phase = "fetch"
    /\ ~retries(calc.retry, status)
    /\ calc' = [calc EXCEPT !.phase = "fulfilled", !.status = status,
                            !.result = Resp(text, NoBody,
                                            IF text = "error" THEN "SyntaxError" ELSE "undefined")]
    /\ UNCHANGED <<authVars, item, mounted, props, location,
                   tabStorage, code, loginUrl, userInfo, tokenQuery, userInfoQuery, logins,
                   lastRender, nav, catches, acts>>

\* The signal is aborted: the fetch in flight rejects, and so does the sleep.
RequestAbort ==
    /\ calc.phase \in {"fetch", "sleep"}
    /\ calc' = [calc EXCEPT !.phase = "rejected",
                            !.result = Resp("undefined", NoBody, "AbortError")]
    /\ UNCHANGED <<authVars, item, mounted, props, location,
                   tabStorage, code, loginUrl, userInfo, tokenQuery, userInfoQuery, logins,
                   lastRender, nav, catches, acts>>

RequestNext ==
    \/ \E status \in Statuses : RequestRetry(status)
    \/ RequestSleepDone
    \/ \E status \in Statuses, text \in Texts : RequestReturn(status, text)
    \/ RequestAbort

RequestSpec == RequestInit /\ [][RequestNext]_vars

\* Every fetch is answered and every timer fires.
RequestAnswered ==
    \/ \E status \in Statuses : RequestRetry(status)
    \/ RequestSleepDone
    \/ \E status \in Statuses, text \in Texts : RequestReturn(status, text)

FairRequestSpec == RequestSpec /\ WF_vars(RequestAnswered)

\* ------------------------------------------------------------ challenge
\* The longest digest the encoding is applied to; 32 bytes leave the same
\* remainder modulo 3 as 2.
MaxBytes == 3

\* Bytes whose bits give every kind of base64 digit, '+' (62) and '/' (63)
\* included.
ByteValues == {0, 62, 251, 255}

\* The base64 alphabet of btoa.
Base64Digits ==
    << "A", "B", "C", "D", "E", "F", "G", "H", "I", "J", "K", "L", "M", "N", "O", "P",
       "Q", "R", "S", "T", "U", "V", "W", "X", "Y", "Z", "a", "b", "c", "d", "e", "f",
       "g", "h", "i", "j", "k", "l", "m", "n", "o", "p", "q", "r", "s", "t", "u", "v",
       "w", "x", "y", "z", "0", "1", "2", "3", "4", "5", "6", "7", "8", "9", "+", "/" >>

Base64Digit(i) == Base64Digits[i + 1]

\* btoa(String.fromCharCode(...bytes)): the characters of the base64 text.
RECURSIVE btoa(_)
btoa(bytes) ==
    IF Len(bytes) = 0 THEN <<>>
    ELSE IF Len(bytes) = 1
    THEN LET n == bytes[1] * 65536 IN
         << Base64Digit(n \div 262144), Base64Digit((n \div 4096) % 64), "=", "=" >>
    ELSE IF Len(bytes) = 2
    THEN LET n == bytes[1] * 65536 + bytes[2] * 256 IN
         << Base64Digit(n \div 262144), Base64Digit((n \div 4096) % 64),
            Base64Digit((n \div 64) % 64), "=" >>
    ELSE LET n == bytes[1] * 65536 + bytes[2] * 256 + bytes[3] IN
         << Base64Digit(n \div 262144), Base64Digit((n \div 4096) % 64),
            Base64Digit((n \div 64) % 64), Base64Digit(n % 64) >>
         \o btoa(SubSeq(bytes, 4, Len(bytes)))

\* text.replace(/c/g, by): by is a sequence of characters, the empty one to
\* delete.
RECURSIVE replace(_, _, _)
replace(text, c, by) ==
    IF Len(text) = 0 THEN <<>>
    ELSE (IF Head(text) = c THEN by ELSE <<Head(text)>>) \o replace(Tail(text), c, by)

\* Mutant: base64encode that leaves '/' in the text.
base64encode_KeepsSlash(bytes) ==
    replace(replace(btoa(bytes), "+", <<"-">>), "=", <<>>)

\* base64encode of the bytes of a digest.
base64encode(bytes) ==
    replace(replace(replace(btoa(bytes), "+", <<"-">>), "/", <<"_">>), "=", <<>>)

RECURSIVE ByteSeqs(_)
ByteSeqs(n) ==
    IF n = 0 THEN {<<>>}
    ELSE ByteSeqs(n - 1) \cup
         {Append(b, v) : b \in {x \in ByteSeqs(n - 1) : Len(x) = n - 1}, v \in ByteValues}

\* A verifier and its SHA-256 digest, the bytes crypto.subtle.digest gives
\* for it; the challenge computed for it once and once more.
Challenge(digest, op, first, second) ==
    [digest |-> digest, op |-> op, first |-> first, second |-> second]

ChallengeInit ==
    /\ storage = NoItem
    /\ events = 0
    /\ clock = 1
    /\ refreshSessionPromise = 0
    /\ rsProm = <<>>
    /\ getAccessTokenPromise = 0
    /\ gaProm = <<>>
    /\ caller = [c \in Callers |-> [pc |-> "idle", op |-> "none", p |-> 0,
                                    joined |-> FALSE, out |-> NoOutcome]]
    /\ aborted = [c \in Callers |-> FALSE]
    /\ reads = 0
    /\ mounted = FALSE
    /\ props = Props(FALSE, FALSE, <<>>)
    /\ location = Location("app", "none")
    /\ tabStorage = TabStorage(0, "")
    /\ item = NoLocalItem
    /\ code = ""
    /\ loginUrl = NoLoginUrl
    /\ userInfo = FALSE
    /\ tokenQuery = IdleTokenQuery
    /\ userInfoQuery = IdleUserInfoQuery
    /\ logins = <<>>
    /\ lastRender = NoRender
    /\ nav = NoNav
    /\ catches = {}
    /\ acts = 0
    /\ calc \in { Challenge(d, "none", <<>>, <<>>) : d \in ByteSeqs(MaxBytes) \ {<<>>} }

\* login() computes the challenge of the verifier.
ChallengeFirst ==
    /\ calc.op = "none"
    /\ calc' = [calc EXCEPT !.op = "once", !.first = base64encode(calc.digest)]
    /\ UNCHANGED <<authVars, item, mounted, props, location,
                   tabStorage, code, loginUrl, userInfo, tokenQuery, userInfoQuery, logins,
                   lastRender, nav, catches, acts>>

\* Another login() flow computes the challenge of the same verifier.
ChallengeSecond ==
    /\ calc.op = "once"
    /\ calc' = [calc EXCEPT !.op = "twice", !.second = base64encode(calc.digest)]
    /\ UNCHANGED <<authVars, item, mounted, props, location,
                   tabStorage, code, loginUrl, userInfo, tokenQuery, userInfoQuery, logins,
                   lastRender, nav, catches, acts>>

ChallengeNext ==
    \/ ChallengeFirst
    \/ ChallengeSecond

ChallengeSpec == ChallengeInit /\ [][ChallengeNext]_vars

\* ------------------------------------------------------------ properties
RsPending == {p \in 1..Len(rsProm) : rsProm[p].state = "pending"}
GaPending == {g \in 1..Len(gaProm) : gaProm[g].state = "pending"}
RefreshCallers == {c \in Callers : caller[c].op = "refresh"}
TokenCallers == {c \in Callers : caller[c].op = "token"}

\* A refreshSession call made while the slot is occupied starts no request and
\* is handed the promise in the slot.
RefreshJoinStep ==
    \A c \in Callers, rt \in RefreshTokenArgs :
        (CallRefreshSession(c, rt) /\ refreshSessionPromise # 0) =>
            /\ rsProm' = rsProm
            /\ refreshSessionPromise' = refreshSessionPromise
            /\ caller'[c].p = refreshSessionPromise

\* A getAccessToken call that delegates while the refresh slot is occupied
\* starts no request either.
DelegateJoinStep ==
    \A c \in Callers :
        (CallGetAccessToken(c) /\ refreshSessionPromise # 0) =>
            /\ rsProm' = rsProm
            /\ refreshSessionPromise' = refreshSessionPromise

\* Callers of refreshSession that hold the same promise settle alike, and as
\* the attempt did.
RefreshSameOutcome ==
    \A c \in RefreshCallers :
        caller[c].pc = "done" =>
            /\ caller[c].out = RsOutcome(rsProm[caller[c].p])
            /\ \A d \in RefreshCallers :
                  (caller[d].pc = "done" /\ caller[d].p = caller[c].p) =>
                      caller[d].out = caller[c].out

\* C1: while a refreshSession call is in flight, a further refreshSession call
\* (direct or from getAccessToken) starts no token-endpoint request and settles
\* as the in-flight call does; at most one refresh is in flight at any time.
C1_RefreshDedup ==
    /\ [](Cardinality(RsPending) <= 1 /\ RefreshSameOutcome)
    /\ [][RefreshJoinStep /\ DelegateJoinStep]_vars

\* A caller joined a refresh that was in flight and got its session.
C1_Witness ==
    \E c, d \in RefreshCallers :
        /\ c # d
        /\ caller[c].p = caller[d].p
        /\ ~caller[c].joined /\ caller[d].joined
        /\ caller[c].pc = "done" /\ caller[d].pc = "done"
        /\ caller[d].out.state = "fulfilled"

\* C2: once a refreshSession (or getAccessToken) attempt has settled, by
\* success, by a failed response or by an abort, the slot holding it is
\* emptied, and a call made with an empty slot starts a fresh attempt.
C2_SlotCleared ==
    /\ (refreshSessionPromise # 0 /\ Settled(rsProm[refreshSessionPromise]))
          ~> (refreshSessionPromise = 0)
    /\ (getAccessTokenPromise # 0 /\ Settled(gaProm[getAccessTokenPromise]))
          ~> (getAccessTokenPromise = 0)
    /\ [][\A c \in Callers, rt \in RefreshTokenArgs :
            (CallRefreshSession(c, rt) /\ refreshSessionPromise = 0) =>
                /\ Len(rsProm') = Len(rsProm) + 1
                /\ refreshSessionPromise' = Len(rsProm')
                /\ rsProm'[Len(rsProm')].phase = "fetch"]_vars

\* After a cancelled attempt the slot was emptied and a later call started a
\* fresh request.
C2_Witness ==
    \E p, q \in 1..Len(rsProm) :
        /\ p < q
        /\ rsProm[p].err = "AbortError"
        /\ rsProm[q].state = "pending"
        /\ refreshSessionPromise = q

\* A getAccessToken call made while the slot is occupied reads nothing, starts
\* nothing and is handed the promise in the slot.
TokenJoinStep ==
    \A c \in Callers :
        (CallGetAccessToken(c) /\ getAccessTokenPromise # 0) =>
            /\ reads' = reads
            /\ rsProm' = rsProm
            /\ gaProm' = gaProm
            /\ caller'[c].p = getAccessTokenPromise

TokenSameOutcome ==
    \A c \in TokenCallers :
        caller[c].pc = "done" =>
            /\ caller[c].out = GaOutcome(gaProm[caller[c].p])
            /\ \A d \in TokenCallers :
                  (caller[d].pc = "done" /\ caller[d].p = caller[c].p) =>
                      caller[d].out = caller[c].out

\* An attempt that found a session in no need of a refresh is bound to no
\* refresh.
NoRefreshNoRequest ==
    \A g \in 1..Len(gaProm) :
        (gaProm[g].read.found /\ gaProm[g].read.sess.expires.n > gaProm[g].at) =>
            gaProm[g].rs = 0

\* C3: concurrent getAccessToken calls share one attempt: a further call reads
\* no storage, starts no request and settles as the pending one; two
\* concurrent calls with a valid session cause no request and get one token.
C3_TokenDedup ==
    /\ [](Cardinality(GaPending) <= 1 /\ TokenSameOutcome /\ NoRefreshNoRequest)
    /\ [][TokenJoinStep]_vars

\* Two concurrent calls with a valid session: one attempt, one read, no
\* request, the same token.
C3_Witness ==
    \E c, d \in TokenCallers :
        /\ c # d
        /\ caller[c].p = caller[d].p
        /\ caller[d].joined
        /\ caller[c].pc = "done" /\ caller[d].pc = "done"
        /\ caller[c].out.state = "fulfilled"
        /\ caller[c].out.tok = caller[d].out.tok
        /\ gaProm[caller[c].p].rs = 0
        /\ rsProm = <<>>
        /\ reads = 1

AuthError == "User is not authenticated"

\* What an attempt of getAccessToken found in storage.
FoundExpired(g) == g.read.found /\ g.read.sess.expires.n < g.at
HasRefreshToken(g) == g.read.sess.refreshToken.k = "string" /\ g.read.sess.refreshToken.s # ""

\* C4: with a stored session that expired and has no refresh token,
\* getAccessToken rejects with an authentication error and starts no request.
C4_ExpiredNoRefreshTokenRejects ==
    \A g \in 1..Len(gaProm) :
        (FoundExpired(gaProm[g]) /\ ~HasRefreshToken(gaProm[g])) =>
            /\ gaProm[g].state = "rejected"
            /\ gaProm[g].err = AuthError
            /\ gaProm[g].rs = 0

\* The stored value is a session that expired and carries a refresh token.
StoredExpiredRefreshable ==
    /\ getItem(storage).found
    /\ getItem(storage).sess.expires.n < DateNow
    /\ Truthy(getItem(storage).sess.refreshToken)

\* C5 as stated: with an expired session that has a refresh token,
\* getAccessToken triggers exactly one refresh, sent with that refresh token,
\* and resolves to the access token of the new session when it succeeds.
C5_Original ==
    \A g \in 1..Len(gaProm) :
        (FoundExpired(gaProm[g]) /\ HasRefreshToken(gaProm[g])) =>
            /\ gaProm[g].rs # 0
            /\ gaProm[g].started
            /\ rsProm[gaProm[g].rs].rt = gaProm[g].read.sess.refreshToken.s
            /\ (Settled(gaProm[g]) /\ rsProm[gaProm[g].rs].state = "fulfilled") =>
                  gaProm[g].tok = rsProm[gaProm[g].rs].sess.accessToken

\* C5 (amended): with an expired session that has a refresh token, an attempt
\* of getAccessToken awaits exactly one refresh: with no refresh in flight it
\* starts one request, sent with that refresh token; with one in flight it
\* joins it and starts none. When that refresh succeeds the attempt resolves
\* to the access token of the new session, which is the session in storage.
C5_OneRefresh ==
    /\ [](\A g \in 1..Len(gaProm) :
            (FoundExpired(gaProm[g]) /\ HasRefreshToken(gaProm[g])) =>
                /\ gaProm[g].rs # 0
                /\ gaProm[g].started =>
                      rsProm[gaProm[g].rs].rt = gaProm[g].read.sess.refreshToken.s
                /\ (Settled(gaProm[g]) /\ rsProm[gaProm[g].rs].state = "fulfilled") =>
                      /\ gaProm[g].state = "fulfilled"
                      /\ gaProm[g].tok = rsProm[gaProm[g].rs].sess.accessToken)
    /\ [][\A c \in Callers :
            (CallGetAccessToken(c) /\ getAccessTokenPromise = 0 /\ StoredExpiredRefreshable) =>
                IF refreshSessionPromise = 0
                THEN /\ Len(rsProm') = Len(rsProm) + 1
                     /\ rsProm'[Len(rsProm')].rt = getItem(storage).sess.refreshToken.s
                     /\ gaProm'[Len(gaProm')].rs = Len(rsProm')
                ELSE /\ rsProm' = rsProm
                     /\ gaProm'[Len(gaProm')].rs = refreshSessionPromise]_vars
    /\ [][\A g \in 1..Len(gaProm) :
            (gaProm[g].state = "pending" /\ gaProm'[g].state = "fulfilled") =>
                /\ gaProm'[g].tok = rsProm[gaProm[g].rs].sess.accessToken
                /\ storage' = setItem(rsProm[gaProm[g].rs].sess)]_vars

\* An attempt found an expired session, started the refresh with its refresh
\* token and resolved to the new access token, whose session is in storage.
C5_Witness ==
    \E g \in 1..Len(gaProm) :
        /\ FoundExpired(gaProm[g]) /\ HasRefreshToken(gaProm[g])
        /\ gaProm[g].started
        /\ gaProm[g].state = "fulfilled"
        /\ gaProm[g].tok = Str("a2")
        /\ getItem(storage).found
        /\ getItem(storage).sess.accessToken = gaProm[g].tok
        /\ Len(rsProm) = 1

\* C6: when getAccessToken finds an expired session with a refresh token and
\* the refresh it awaits rejects (a failed response or an abort), it clears the
\* stored session, dispatching the storage event, and rejects with the
\* authentication error; it never resolves to the old token.
C6_RefreshFailureClears ==
    /\ [](\A g \in 1..Len(gaProm) :
            (/\ gaProm[g].rs # 0
             /\ Settled(gaProm[g])
             /\ rsProm[gaProm[g].rs].state = "rejected") =>
                /\ gaProm[g].state = "rejected"
                /\ gaProm[g].err = AuthError
                /\ gaProm[g].tok = Undefined)
    /\ [][\A g \in 1..Len(gaProm) :
            (/\ gaProm[g].state = "pending"
             /\ rsProm[gaProm[g].rs].state = "rejected"
             /\ gaProm'[g] # gaProm[g]) =>
                /\ storage' = NoItem
                /\ events' = events + 1
                /\ gaProm'[g].state = "rejected"]_vars

\* The refresh an attempt had started was aborted: the attempt rejected and
\* the session is gone.
C6_Witness ==
    \E g \in 1..Len(gaProm) :
        /\ gaProm[g].rs # 0
        /\ gaProm[g].read.sess.expires.n <= gaProm[g].at
        /\ HasRefreshToken(gaProm[g])
        /\ rsProm[gaProm[g].rs].err = "AbortError"
        /\ gaProm[g].state = "rejected"
        /\ storage = NoItem
        /\ events = 1

\* Nothing usable is stored: no item, a text that is not JSON, or a value that
\* fails the shape predicate.
NothingStored == storage.kind # "object" \/ ~isSession(storage.obj)

\* C7: with no session stored, or a stored value that is malformed or fails
\* the shape predicate, getAccessToken rejects with the authentication error,
\* starts no request and leaves storage as it is.
C7_NoSessionRejects ==
    /\ [](\A g \in 1..Len(gaProm) :
            ~gaProm[g].read.found =>
                /\ gaProm[g].state = "rejected"
                /\ gaProm[g].err = AuthError
                /\ gaProm[g].tok = Undefined
                /\ gaProm[g].rs = 0)
    /\ [][\A c \in Callers :
            (CallGetAccessToken(c) /\ getAccessTokenPromise = 0 /\ NothingStored) =>
                /\ ~gaProm'[Len(gaProm')].read.found
                /\ gaProm'[Len(gaProm')].state = "rejected"
                /\ storage' = storage
                /\ events' = events
                /\ rsProm' = rsProm]_vars

\* An attempt found a stored value that fails the predicate, rejected, and the
\* value is still there.
C7_Witness ==
    \E c \in TokenCallers :
        /\ caller[c].pc = "done"
        /\ caller[c].out.state = "rejected"
        /\ caller[c].out.err = AuthError
        /\ ~gaProm[caller[c].p].read.found
        /\ storage.kind = "object"
        /\ rsProm = <<>>

\* C8: with a stored session that is still valid (expires > now),
\* getAccessToken resolves to the stored access token, starts no request and
\* changes neither the stored session nor the refresh slot.
C8_ValidSessionFrame ==
    [][\A c \in Callers :
          (/\ CallGetAccessToken(c)
           /\ getAccessTokenPromise = 0
           /\ ~NothingStored
           /\ storage.obj.expires.n > DateNow) =>
              /\ gaProm'[Len(gaProm')].state = "fulfilled"
              /\ gaProm'[Len(gaProm')].tok = storage.obj.accessToken
              /\ gaProm'[Len(gaProm')].rs = 0
              /\ storage' = storage
              /\ events' = events
              /\ rsProm' = rsProm
              /\ refreshSessionPromise' = refreshSessionPromise]_vars

\* An attempt resolved to the stored token of a valid session that carries a
\* refresh token, while a refresh started by another caller was in flight.
C8_Witness ==
    \E g \in 1..Len(gaProm) :
        /\ gaProm[g].state = "fulfilled"
        /\ gaProm[g].rs = 0
        /\ gaProm[g].read.sess.expires.n > gaProm[g].at
        /\ HasRefreshToken(gaProm[g])
        /\ gaProm[g].tok = Str("a1")
        /\ refreshSessionPromise # 0
        /\ rsProm[refreshSessionPromise].state = "pending"

\* C9: a refreshSession call whose response is not token-shaped rejects and
\* leaves the stored session as it was: every step that starts or advances a
\* refresh without fulfilling it writes nothing, clears nothing and dispatches
\* no event.
C9_FailedRefreshKeepsStorage ==
    [][\A p \in 1..Len(rsProm') :
          (/\ p > Len(rsProm) \/ rsProm'[p] # rsProm[p]
           /\ rsProm'[p].state # "fulfilled") =>
              /\ storage' = storage
              /\ events' = events
              /\ (p <= Len(rsProm) /\ rsProm'[p].phase = "done") =>
                    rsProm'[p].state = "rejected"]_vars

\* A direct call got {"error": ...} or a text that is not JSON, rejected, and
\* the stored session is untouched.
C9_Witness ==
    \E c \in RefreshCallers :
        /\ caller[c].pc = "done"
        /\ caller[c].out.state = "rejected"
        /\ caller[c].out.err = "undefined"
        /\ ~NothingStored
        /\ storage.obj.accessToken = Str("a1")
        /\ events = 0

\* C10: a successful refresh yields a session with a refresh token: the new
\* one when the response carries one, else the one the refresh was sent with.
C10_RefreshKeepsRefreshToken ==
    \A p \in 1..Len(rsProm) :
        rsProm[p].state = "fulfilled" =>
            /\ rsProm[p].sess.refreshToken.k = "string"
            /\ rsProm[p].sess.refreshToken.s \in {"r2", rsProm[p].rt}

\* ------------------------------------------------------------ properties of the controller
\* The exchange has failed: status 'error', or a 200 whose body is no token
\* response.
ExchangeFailed ==
    \/ tokenQuery.status = "error"
    \/ /\ tokenQuery.status = "success"
       /\ ~isTokenResponse(tokenQuery.response.parsed, tokenQuery.response.body)

\* The catch handler h runs in this step.
CatchStep(h) == h \in catches /\ h \notin catches'

\* C11: Every refresh the controller starts or joins has the clearing handler
\* attached from the moment of the call until the handler has run; when the
\* refresh request fails the handler runs before the page handles another
\* task, and the step in which it runs leaves no session in storage and none
\* in the local item.
C11_AutoRefreshFailureClears ==
    /\ [][\A p \in 1..Len(rsProm') :
            (p > Len(rsProm) \/ (rsProm[p].state = "pending" /\ rsProm'[p].state = "rejected"))
                => \E h \in catches' : h.p = p]_vars
    /\ [][\A h \in catches :
            (CatchStep(h) /\ rsProm[h.p].state = "rejected")
                => (storage' = NoItem /\ ~useStorage(item', storage').found)]_vars
    /\ [][(\E h \in catches : rsProm[h.p].state = "rejected")
            => (\E h \in catches : CatchStep(h)) \/ (mounted /\ RsFinally)]_vars

\* A refresh the user-info error has triggered (the stored session expires at
\* 2000 s, the clock is at 1 s) has failed, and its handler has emptied the
\* storage.
C11_Witness ==
    /\ acts = 0
    /\ clock = 1
    /\ Len(rsProm) = 1
    /\ rsProm[1].state = "rejected"
    /\ catches = {}
    /\ lastRender.userInfoStatus = "error"
    /\ storage = NoItem

\* The session the provider has is expired and the provider cannot refresh
\* it: the refreshSession option is off or the session has no refresh token.
ExpiredUnrefreshable ==
    LET s == useStorage(item, storage) IN
    /\ mounted
    /\ s.found
    /\ s.sess.expires.n <= DateNow
    /\ ~props.refreshSessionOpt \/ ~Truthy(s.sess.refreshToken)

\* C12: A provider whose session is expired, and which has no refresh token
\* or has the refreshSession option off, eventually is rid of that session:
\* the session is cleared (or replaced, or the page is left).
C12_ExpiredSessionCleared ==
    ExpiredUnrefreshable ~> ~ExpiredUnrefreshable

\* C13: A commit of the provider that has a session captures no code from the
\* URL and applies no outcome of the exchange: the stored session, the
\* verifier and the entrypoint stay as they are and no navigation starts.
C13_SessionTakesPrecedence ==
    [][(Render /\ Snapshot.session.found)
        => /\ code' = code
           /\ storage' = storage
           /\ useStorage(item', storage') = Snapshot.session
           /\ tabStorage' = tabStorage
           /\ nav' = nav]_vars

\* The provider has rendered with the session another tab has stored and with
\* the token response of its exchange: the session, the verifier and the
\* entrypoint are still there and no navigation has started.
C13_Witness ==
    /\ mounted
    /\ ~RenderPending
    /\ lastRender.session.found
    /\ lastRender.tokenStatus = "success"
    /\ isTokenResponse(lastRender.tokenResponse.parsed, lastRender.tokenResponse.body)
    /\ code = "c1"
    /\ storage = Item("object", Obj(Str("a3"), Str("r3"), Str("i3"), Num(3000)))
    /\ tabStorage = TabStorage(PriorKey, "/ep")
    /\ nav = NoNav

\* An exchange request is sent in this step.
ExchangeSent ==
    /\ tokenQuery'.inflight
    /\ ~tokenQuery.inflight \/ tokenQuery'.params # tokenQuery.params

\* C14: An exchange request is only sent by a commit of a provider that has
\* no session.
C14_NoExchangeWithSession ==
    [][ExchangeSent => ~Snapshot.session.found]_vars

ExchangeSucceeded ==
    /\ tokenQuery.status = "success"
    /\ isTokenResponse(tokenQuery.response.parsed, tokenQuery.response.body)

\* C16 as stated: once the exchange has succeeded and the provider has
\* rendered with the response, neither verifier nor entrypoint is in
\* sessionStorage.
C16_NothingLeftAfterSuccess ==
    (mounted /\ ~RenderPending /\ ExchangeSucceeded) => tabStorage = TabStorage(0, "")

\* C16: Verifier and entrypoint are removed from sessionStorage only by the
\* commit that applies a token response, that is a commit with a token
\* response and without a session; that commit removes both and navigates to
\* the entrypoint if there was one. A commit that has the token response and
\* a session leaves both where they are.
C16_VerifierLifecycle ==
    /\ [][((tabStorage.pkceKey # 0 /\ tabStorage'.pkceKey = 0)
            \/ (tabStorage.entrypoint # "" /\ tabStorage'.entrypoint = ""))
            => (Render /\ exchangeApplies(Snapshot))]_vars
    /\ [][(Render /\ exchangeApplies(Snapshot))
            => /\ tabStorage' = TabStorage(0, "")
               /\ tabStorage.entrypoint # ""
                    => (nav'.to = "entrypoint" /\ nav'.path = tabStorage.entrypoint)
               /\ tabStorage.entrypoint = "" => nav' = nav]_vars
    /\ [][(Render /\ ExchangeSucceeded /\ Snapshot.session.found)
            => tabStorage' = tabStorage]_vars

\* The exchange has been applied: the session of the token response is stored,
\* verifier and entrypoint are gone and the page navigates to the entrypoint.
C16_Witness ==
    /\ storage.kind = "object"
    /\ storage.obj.accessToken = Str("a2")
    /\ tabStorage = TabStorage(0, "")
    /\ nav.to = "entrypoint"
    /\ nav.path = "/ep"

\* C17: Once the exchange has failed, the exchange query stays as it is (no
\* request is sent again), and neither the step that reports the failure nor
\* a commit that has the failure writes a session, touches verifier or
\* entrypoint or starts a navigation.
C17_FailedExchange ==
    /\ [][ExchangeFailed => tokenQuery' = tokenQuery]_vars
    /\ [][((~ExchangeFailed /\ ExchangeFailed') \/ (ExchangeFailed /\ Render))
            => /\ storage' = storage
               /\ item' = [item EXCEPT !.fresh = FALSE]
               /\ tabStorage' = tabStorage
               /\ nav' = nav]_vars

\* The exchange has failed with an error status and the provider has rendered
\* with it: no session, the verifier and the entrypoint still stored.
C17_Witness ==
    /\ mounted
    /\ ~RenderPending
    /\ tokenQuery.status = "error"
    /\ lastRender.tokenStatus = "error"
    /\ code = "c1"
    /\ storage = NoItem
    /\ tabStorage = TabStorage(PriorKey, "/ep")
    /\ nav = NoNav

\* The provider has rendered without a session and without a code, and
\* autoLogin is set.
AutoLoginCase ==
    /\ mounted
    /\ ~RenderPending
    /\ props.autoLogin
    /\ ~lastRender.session.found
    /\ code = ""

\* C18: A provider with autoLogin that has rendered without a session and
\* without a code has invoked login(), whatever the URL, the redirect URI with
\* a query string that has no code included.
C18_AutoLoginWhenever ==
    AutoLoginCase => logins # <<>>

\* Every login() that was called has run to its end.
LoginsDone == \A l \in 1..Len(logins) : logins[l].pc = "done"

\* C19: Without additionalParameters, once the login() calls have run to
\* their end the authorize URL in loginUrl has code_challenge_method=S256 and
\* the code_challenge derived from the verifier in sessionStorage, and so has
\* the authorize URL the document was replaced with.
C19_ChallengeMatchesVerifier ==
    props.additionalParameters = <<>> =>
        /\ (loginUrl.set /\ LoginsDone)
            => /\ loginUrl.url.code_challenge_method = Param("S256")
               /\ loginUrl.url.code_challenge = challenge(tabStorage.pkceKey)
        /\ (~mounted /\ nav.to = "authorize")
            => /\ nav.url.code_challenge_method = Param("S256")
               /\ nav.url.code_challenge = challenge(tabStorage.pkceKey)

\* The parameters of the authorize request the flow cannot do without.
RequiredParameters ==
    {"client_id", "response_type", "redirect_uri", "code_challenge_method", "code_challenge"}

\* C20: The authorize URL in loginUrl has, whatever additionalParameters are,
\* the provider's own client_id, response_type=code, redirect_uri,
\* code_challenge_method=S256 and the code_challenge of one of the login()
\* calls.
C20_RequiredParametersKept ==
    loginUrl.set =>
        \E l \in 1..Len(logins) :
            \A f \in RequiredParameters : loginUrl.url[f] = queryString(logins[l].key)[f]

\* The verifiers login() has stored so far, and the one of an earlier page.
KnownKeys == {logins[l].key : l \in 1..Len(logins)} \cup {0, PriorKey, tabStorage.pkceKey}

C22_NoRedirect ==
    /\ [][\A l \in 1..Len(logins) : (DigestDone(l) /\ ~logins[l].redirect) => nav' = nav]_vars
    /\ [][(/\ Render
            /\ exchangeApplies(Snapshot)
            /\ logins # <<>>
            /\ ~logins[Len(logins)].redirect
            /\ tokenQuery.params = TokenParams(logins[Len(logins)].key, code))
            => nav' = nav]_vars

\* C23: logout() leaves no session in localStorage, unsets the user info,
\* sends no request and leaves sessionStorage, and the location, as they are;
\* and the context then exposes neither session nor info: the provider
\* renders again, without them, or what it has rendered with has neither.
C23_Logout ==
    [][Logout
        => /\ storage' = NoItem
           /\ ~useStorage(item', storage').found
           /\ ~userInfo'
           /\ tabStorage' = tabStorage
           /\ tokenQuery' = tokenQuery
           /\ userInfoQuery' = userInfoQuery
           /\ rsProm' = rsProm
           /\ refreshSessionPromise' = refreshSessionPromise
           /\ nav' = nav
           /\ RenderPending' \/ (~lastRender'.session.found /\ ~lastRender'.userInfo)]_vars

ExposesStored == lastRender.session = useStorage(NoLocalItem, storage)

\* C25: Whenever the mounted provider exposes another session than the one in
\* localStorage, it eventually exposes the one in localStorage (or the page
\* is left).
C25_SubscriberFollowsStorage ==
    (mounted /\ ~ExposesStored) ~> (~mounted \/ ExposesStored)

\* C26: The stored session changes only to nothing or to a whole object that
\* reads back as a session: whatever is written is a complete, shape-valid
\* session, never part of one.
C26_WholeSessionOrNothing ==
    [][calc.resp # NoResp /\ storage' # storage =>
          \/ storage' = NoItem
          \/ storage'.kind = "object" /\ isSession(storage'.obj)]_vars

\* a > b for a number a that may be Infinity or NaN and a finite number b.
Greater(a, b) ==
    \/ a.k = "number" /\ a.s = "Infinity"
    \/ a.k = "number" /\ a.s = "" /\ a.n > b

\* C27: A session created by the exchange or by a refresh expires after the
\* time of its creation, whatever number expires_in is.
C27_ExpiresInFuture ==
    calc.op \in {"exchange", "refresh"} => Greater(calc.made.expires, DateNow)

\* C29: A value that passes isSession, stored and read back, is found and is
\* equal to the original in every field.
C29_RoundTrip ==
    calc.op = "read:stored" => calc.read.found /\ calc.read.sess = calc.sess

\* C28: localStorage never holds the user-info response.
C28_UserInfoNotPersisted == ~userInfoQuery.cached

\* C30: request() sends at most retry + 1 fetches, sends another one only
\* after a 429, is fulfilled with the last response (a 429 only when no retry
\* is left) or rejects when the signal is aborted, and always settles.
C30_BoundedRetry ==
    /\ [](/\ calc.fetches <= retryOf(calc.opt) + 1
          /\ calc.phase = "sleep" => calc.status = 429
          /\ calc.phase = "fulfilled" /\ calc.status = 429 =>
                calc.fetches = retryOf(calc.opt) + 1)
    /\ [][/\ calc'.fetches # calc.fetches =>
               calc'.fetches = calc.fetches + 1 /\ calc.status = 429 /\ calc.phase = "sleep"
          /\ calc.phase \in {"fulfilled", "rejected"} => calc' = calc]_vars
    /\ <>(calc.phase \in {"fulfilled", "rejected"})

\* request() called with retry 2 has been answered 429 three times and is
\* fulfilled with the third response.
C30_Witness ==
    /\ calc.opt = RetryOption(TRUE, 2)
    /\ calc.phase = "fulfilled"
    /\ calc.status = 429
    /\ calc.fetches = 3

\* C31: While the user-info request is in flight and localStorage holds a
\* cached response, useCachedQuery returns the cached response with status
\* 'success'; after a failed request the cache is empty and the cached
\* response is not returned.
C31_CachedIsSuccess ==
    /\ mounted /\ ~RenderPending /\ userInfoQuery.inflight /\ userInfoQuery.cached =>
          /\ useCachedQuery(userInfoQuery).fromCache
          /\ useCachedQuery(userInfoQuery).status = "success"
    /\ mounted /\ ~RenderPending /\ userInfoQuery.status = "error" =>
          ~userInfoQuery.cached /\ ~useCachedQuery(userInfoQuery).fromCache

\* The characters of a text.
Chars(text) == {text[i] : i \in 1..Len(text)}

UserInfoSent ==
    /\ userInfoQuery'.inflight
    /\ ~userInfoQuery.inflight \/ userInfoQuery'.params # userInfoQuery.params

\* C33: A user-info request is sent only by a commit whose render has a
\* session that is not expired and no authorization code, and that session is
\* the one whose access token the request carries.
C33_UserInfoGated ==
    [][UserInfoSent =>
          /\ Render
          /\ lastRender'.session.found
          /\ lastRender'.session.sess.expires.n > DateNow
          /\ lastRender'.code = ""
          /\ userInfoQuery'.params = lastRender'.session.sess.accessToken]_vars

\* The user-info request is in flight for a session that is not expired.
C33_Witness ==
    /\ mounted
    /\ userInfoQuery.inflight
    /\ lastRender.session.found
    /\ lastRender.session.sess.expires.n > DateNow
    /\ userInfoQuery.params = lastRender.session.sess.accessToken

\* C34: Once logout() has run, a session comes into the empty storage only by
\* the commit that applies a code exchange: a refresh that was in flight does
\* not write one back.
C34_LogoutStays ==
    [][acts > 0 /\ ~getItem(storage).found /\ getItem(storage').found => Render]_vars

\* C35: The catch handler of a refresh that failed leaves the stored session
\* alone when that session is not the one the refresh was started with (its
\* refresh token is another one).
C35_FailureSparesNewerSession ==
    [][\A h \in catches :
          /\ Catch(h)
          /\ getItem(storage).found
          /\ getItem(storage).sess.refreshToken # Str(rsProm[h.p].rt)
          => storage' = storage]_vars

\* C36: The context value of every render has info only together with a
\* session.
C36_InfoOnlyWithSession ==
    mounted /\ lastRender.userInfo => lastRender.session.found

\* A refresh request is in flight.
RefreshInFlight == \E p \in 1..Len(rsProm) : ~Settled(rsProm[p])

\* C37: The provider starts only finitely many refreshes: from some point on
\* no refresh request is in flight.
C37_RefreshesEnd == <>[](~RefreshInFlight)

\* The provider has exchanged the code it captured for a session and stays on
\* the page: no navigation has been started.
ExchangedInPlace ==
    /\ mounted
    /\ code # ""
    /\ lastRender.session.found
    /\ getItem(storage).found
    /\ nav = NoNav

\* C38: After an exchange that is not followed by a navigation the code stops
\* being pending (or the page is left, or the session is gone).
C38_CodeStopsPending ==
    ExchangedInPlace ~> (~mounted \/ code = "" \/ ~getItem(storage).found)

\* A caller that joined an attempt gets the outcome of that attempt, and the
\* request of an attempt keeps the refresh token and the signal it was
\* started with.
JoinedGetsShared ==
    /\ [](\A d \in Callers :
            caller[d].pc = "done" /\ caller[d].joined =>
              IF caller[d].op = "refresh"
              THEN caller[d].out = RsOutcome(rsProm[caller[d].p])
              ELSE caller[d].out = GaOutcome(gaProm[caller[d].p]))
    /\ [][\A p \in 1..Len(rsProm) :
            rsProm'[p].rt = rsProm[p].rt /\ rsProm'[p].owner = rsProm[p].owner]_vars

\* The abort of a caller that joined changes nothing of the attempt it joined.
JoinedAbortIgnored ==
    [][\A c \in Callers :
          Abort(c) /\ caller[c].joined =>
            /\ gaProm' = gaProm
            /\ caller[c].pc = "awaitRs" => rsProm'[caller[c].p] = rsProm[caller[c].p]
            /\ caller[c].pc = "awaitGa" /\ gaProm[caller[c].p].rs # 0 =>
                  rsProm'[gaProm[caller[c].p].rs] = rsProm[gaProm[caller[c].p].rs]]_vars

\* The refresh request the attempt of caller c waits for, 0 if none.
RequestOf(c) ==
    IF caller[c].pc = "awaitRs" THEN caller[c].p
    ELSE IF caller[c].pc = "awaitGa" /\ gaProm[caller[c].p].state = "pending"
         THEN gaProm[caller[c].p].rs
         ELSE 0

\* C39 as stated: a caller that joins gets the result of the first caller's
\* request, its own abort changes nothing, and the abort of the first caller
\* of an attempt rejects the request the attempt waits for, and with it every
\* caller that joined.
C39_BoundToFirstCaller ==
    /\ JoinedGetsShared
    /\ JoinedAbortIgnored
    /\ [][\A c \in Callers :
            (/\ Abort(c)
             /\ ~caller[c].joined
             /\ RequestOf(c) # 0
             /\ rsProm[RequestOf(c)].state = "pending")
            => rsProm'[RequestOf(c)].state = "rejected"]_vars

\* C39, amended: the abort that rejects the request, and with it every caller
\* bound to it, is the abort of the caller whose call started the request.
C39_BoundToRequestStarter ==
    /\ JoinedGetsShared
    /\ JoinedAbortIgnored
    /\ [][\A c \in Callers, p \in 1..Len(rsProm) :
            Abort(c) /\ rsProm[p].state = "pending" =>
              IF rsProm[p].owner = c
              THEN rsProm'[p].state = "rejected" /\ rsProm'[p].err = "AbortError"
              ELSE rsProm'[p] = rsProm[p]]_vars

\* A caller of refreshSession joined a request started with another refresh
\* token and was rejected when the caller that started it aborted.
C39_Witness ==
    \E d \in Callers :
        /\ caller[d].pc = "done" /\ caller[d].joined /\ caller[d].op = "refresh"
        /\ rsProm[caller[d].p].rt \notin RefreshTokenArgs
        /\ rsProm[caller[d].p].owner # d
        /\ aborted[rsProm[caller[d].p].owner]
        /\ caller[d].out.state = "rejected" /\ caller[d].out.err = "AbortError"

\* C40: While a request of a query is in flight the status of the query is
\* 'loading': a request that was superseded has not set it to 'error'.
C40_SupersededIsSilent ==
    mounted =>
        /\ userInfoQuery.inflight => userInfoQuery.status = "loading"
        /\ tokenQuery.inflight => tokenQuery.status = "loading"

====
